---- MODULE Spec2Model ----
(***************************************************************************)
(* Mini SQL engine: the typed data model (Column, Schema, Row, Table), the  *)
(* storage registry, the query processor, the execution engine and the     *)
(* WHERE predicate, as a state machine over the storage registry.          *)
(*                                                                         *)
(* Representation of Python values.  A value is a record                   *)
(*     [t |-> kind, n |-> integer payload, s |-> text payload]             *)
(*   kind "null"  : None                                                   *)
(*   kind "bool"  : n = 1 for True, 0 for False                            *)
(*   kind "int"   : n is the integer                                       *)
(*   kind "float" : n is the value counted in halves (3 is 1.5, 4 is 2.0)  *)
(*   kind "str"   : s is the text as a sequence of character codes         *)
(* Every str the program handles (names, text values) is a sequence of     *)
(* character codes, so that lower(), len(), int(), str() and the ordering  *)
(* of strings are computed and not looked up.                              *)
(***************************************************************************)
EXTENDS Integers, Sequences, FiniteSets, TLC

VARIABLES tables, inserted, last, call

vars == <<tables, inserted, last, call>>

----------------------------------------------------------------------------
(* Bounds of the model *)

\* rows the registry may hold, all tables together, before INSERT is cut off
MaxRows == 2
\* length of the row sequences handed to FilterOperation.execute directly
MaxInput == 2

----------------------------------------------------------------------------
(* Values *)

None == [t |-> "null", n |-> 0, s |-> <<>>]
PyBool(b) == [t |-> "bool", n |-> IF b THEN 1 ELSE 0, s |-> <<>>]
PyInt(i) == [t |-> "int", n |-> i, s |-> <<>>]
\* a float given by its number of halves
PyFloat(h) == [t |-> "float", n |-> h, s |-> <<>>]
PyStr(cs) == [t |-> "str", n |-> 0, s |-> cs]

IsNone(v) == v.t = "null"
\* isinstance(v, int): bool is a subclass of int
IsInstanceInt(v) == v.t \in {"int", "bool"}
IsInstanceBool(v) == v.t = "bool"
IsInstanceFloat(v) == v.t = "float"
IsInstanceStr(v) == v.t = "str"

\* the numeric value of a bool, int or float, in halves
Halves(v) == IF v.t = "float" THEN v.n ELSE 2 * v.n

----------------------------------------------------------------------------
(* Text as character codes *)

IsDigit(c) == c \in 48..57
IsUpper(c) == c \in 65..90
IsLowerCh(c) == c \in 97..122
IsAlnumCh(c) == IsDigit(c) \/ IsUpper(c) \/ IsLowerCh(c)

\* str.lower()
Lower(cs) == [i \in 1..Len(cs) |-> IF IsUpper(cs[i]) THEN cs[i] + 32 ELSE cs[i]]

\* str.replace(ch, '') for a single character ch
RECURSIVE RemoveChar(_, _)
RemoveChar(cs, ch) ==
    IF cs = <<>> THEN <<>>
    ELSE IF Head(cs) = ch THEN RemoveChar(Tail(cs), ch)
         ELSE <<Head(cs)>> \o RemoveChar(Tail(cs), ch)

\* str.isalnum(): non-empty and every character alphanumeric
IsAlnum(cs) == cs # <<>> /\ \A i \in 1..Len(cs) : IsAlnumCh(cs[i])

\* name.replace('_', '').replace('-', '').isalnum()
ValidName(cs) == IsAlnum(RemoveChar(RemoveChar(cs, 95), 45))

\* the decimal digits of a natural number
RECURSIVE Digits(_)
Digits(k) == IF k < 10 THEN <<48 + k>> ELSE Digits(k \div 10) \o <<48 + (k % 10)>>

\* str(i) for an integer i
IntToStr(i) == IF i < 0 THEN <<45>> \o Digits(0 - i) ELSE Digits(i)

\* str(x) for a float of h halves: repr with one fractional digit, .0 or .5
FloatToStr(h) ==
    LET a == IF h < 0 THEN 0 - h ELSE h
        body == Digits(a \div 2) \o <<46>> \o (IF a % 2 = 0 THEN <<48>> ELSE <<53>>)
    IN  IF h < 0 THEN <<45>> \o body ELSE body

\* the value of a non-empty sequence of digits
RECURSIVE DigitsValue(_)
DigitsValue(cs) ==
    IF cs = <<>> THEN 0
    ELSE 10 * DigitsValue(SubSeq(cs, 1, Len(cs) - 1)) + (cs[Len(cs)] - 48)

AllDigits(cs) == cs # <<>> /\ \A i \in 1..Len(cs) : IsDigit(cs[i])

Unsigned(cs) == IF cs # <<>> /\ Head(cs) = 45 THEN Tail(cs) ELSE cs
Negative(cs) == cs # <<>> /\ Head(cs) = 45

\* int(text) succeeds: an optional '-' and digits.  (int() also accepts
\* surrounding blanks, '+' and '_' between digits; no text of the model
\* has them.)
IntParses(cs) == AllDigits(Unsigned(cs))
IntOfStr(cs) ==
    IF Negative(cs) THEN 0 - DigitsValue(Unsigned(cs)) ELSE DigitsValue(Unsigned(cs))

\* position of the first '.', 0 if there is none
RECURSIVE DotIndex(_, _)
DotIndex(cs, i) ==
    IF i > Len(cs) THEN 0 ELSE IF cs[i] = 46 THEN i ELSE DotIndex(cs, i + 1)

\* float(text) succeeds: an optional '-', digits, and optionally '.' with
\* the single fractional digit 0 or 5 (the fractions the halves can hold;
\* no text of the model spells another numeral, an exponent, inf or nan)
FloatParses(cs) ==
    LET u == Unsigned(cs)
        d == DotIndex(u, 1)
    IN  IF d = 0 THEN AllDigits(u)
        ELSE /\ AllDigits(SubSeq(u, 1, d - 1))
             /\ Len(u) = d + 1
             /\ u[d + 1] \in {48, 53}
\* float(text) in halves
FloatOfStr(cs) ==
    LET u == Unsigned(cs)
        d == DotIndex(u, 1)
        a == IF d = 0 THEN 2 * DigitsValue(u)
             ELSE 2 * DigitsValue(SubSeq(u, 1, d - 1)) + (IF u[d + 1] = 53 THEN 1 ELSE 0)
    IN  IF Negative(cs) THEN 0 - a ELSE a

\* lexicographic order of two texts by character code: -1, 0 or 1
RECURSIVE StrCmp(_, _)
StrCmp(x, y) ==
    IF x = <<>> /\ y = <<>> THEN 0
    ELSE IF x = <<>> THEN 0 - 1
    ELSE IF y = <<>> THEN 1
    ELSE IF Head(x) < Head(y) THEN 0 - 1
    ELSE IF Head(x) > Head(y) THEN 1
    ELSE StrCmp(Tail(x), Tail(y))

----------------------------------------------------------------------------
(* Outcomes of calls that may raise *)

\* The message of an exception is the sequence of its parts: words of the
\* format string, a text put into it, a number put into it, or the joined
\* names of a set of tables.
Lit(words) == [part |-> "lit", lit |-> words, text |-> <<>>, num |-> 0, names |-> {}]
Txt(cs) == [part |-> "text", lit |-> "", text |-> cs, num |-> 0, names |-> {}]
Num(k) == [part |-> "num", lit |-> "", text |-> <<>>, num |-> k, names |-> {}]
Joined(names) == [part |-> "names", lit |-> "", text |-> <<>>, num |-> 0, names |-> names]

\* a call that returned val
Ok(val) == [ok |-> TRUE, err |-> "", val |-> val, cause |-> "", msg |-> <<>>]
\* a call that raised an exception of class kind with message msg; cause
\* keeps the class of the exception first raised when a handler replaces it
\* by another
RaiseMsg(kind, msg) == [ok |-> FALSE, err |-> kind, val |-> <<>>, cause |-> kind,
                        msg |-> msg]
\* a call that raised an exception of class kind, its message left out
Raise(kind) == RaiseMsg(kind, <<>>)
\* the exception of outcome o replaced by one of class kind, whose message
\* ends with the message of o (f"...: {e}")
Wrap(kind, o) == [o EXCEPT !.err = kind]

\* try: <o> except <kinds>: raise / except Exception: raise <wrapper>(...)
\* in a module whose namespace binds the exception classes <imports>.
\* Python evaluates the tuple of the first except clause when the body
\* raises, whatever it raises: a class the module never imported makes that
\* evaluation raise NameError, which leaves the try statement.
Except(o, kinds, imports, wrapper) ==
    IF o.ok THEN o
    ELSE IF ~(kinds \subseteq imports) THEN Wrap("NameError", o)
    ELSE IF o.err \in kinds THEN o
    ELSE Wrap(wrapper, o)

\* name = <value> followed by <Body>: a local name bound to what a call
\* returned, the call made once
Let(value, Body(_)) == Body(value)

----------------------------------------------------------------------------
(* Column *)

\* max_length None
NoLength == 0
\* max_length given to a VARCHAR column that has none
DefaultVarcharLength == 255

ValidTypes == {"INT", "VARCHAR", "FLOAT", "BOOLEAN"}

\* Column(name, data_type, nullable, max_length) after __post_init__
Column(name, data_type, nullable, max_length) ==
    IF name = <<>> THEN Raise("ValueError")
    ELSE IF data_type \notin ValidTypes THEN Raise("ValueError")
    ELSE LET ml == IF data_type = "VARCHAR" /\ max_length = NoLength
                   THEN DefaultVarcharLength ELSE max_length
         IN  IF ml # NoLength /\ ml <= 0 THEN Raise("ValueError")
             ELSE Ok([name |-> name, data_type |-> data_type,
                      nullable |-> nullable, max_length |-> ml])

\* self.max_length or 255
LengthLimit(col) == IF col.max_length = NoLength THEN 255 ELSE col.max_length

\* Column.validate_value
validate_value(col, v) ==
    IF IsNone(v) THEN col.nullable
    ELSE IF col.data_type = "INT" THEN IsInstanceInt(v) /\ ~IsInstanceBool(v)
    ELSE IF col.data_type = "FLOAT"
         THEN (IsInstanceInt(v) \/ IsInstanceFloat(v)) /\ ~IsInstanceBool(v)
    ELSE IF col.data_type = "VARCHAR"
         THEN IF ~IsInstanceStr(v) THEN FALSE ELSE Len(v.s) <= LengthLimit(col)
    ELSE IF col.data_type = "BOOLEAN" THEN IsInstanceBool(v)
    ELSE FALSE

\* int(value)
ToInt(v) ==
    IF IsInstanceStr(v)
    THEN IF IntParses(v.s) THEN Ok(PyInt(IntOfStr(v.s))) ELSE Raise("ValueError")
    ELSE IF IsInstanceFloat(v) THEN Ok(PyInt(v.n \div 2))
    ELSE Ok(PyInt(v.n))

\* float(value) that hands an int back as it is
ToFloatKeepInt(v) ==
    IF IsInstanceStr(v)
    THEN IF FloatParses(v.s) THEN Ok(PyFloat(FloatOfStr(v.s))) ELSE Raise("ValueError")
    ELSE IF IsInstanceFloat(v) THEN Ok(v)
    ELSE Ok(PyInt(v.n))

\* float(value)
ToFloat(v) ==
    IF IsInstanceStr(v)
    THEN IF FloatParses(v.s) THEN Ok(PyFloat(FloatOfStr(v.s))) ELSE Raise("ValueError")
    ELSE Ok(PyFloat(Halves(v)))

\* str(value) of a value that is not None
ToStr(v) ==
    IF IsInstanceStr(v) THEN v.s
    ELSE IF IsInstanceBool(v)
         THEN (IF v.n = 1 THEN <<84, 114, 117, 101>> ELSE <<70, 97, 108, 115, 101>>)
    ELSE IF IsInstanceFloat(v) THEN FloatToStr(v.n)
    ELSE IntToStr(v.n)

\* the texts that convert to True in a BOOLEAN column: 'true', '1', 'yes', 'on'
TrueTexts == {<<116, 114, 117, 101>>, <<49>>, <<121, 101, 115>>, <<111, 110>>}

\* Column.convert_value whose VARCHAR takes shorter texts only
convert_value_shorter_only(col, v) ==
    IF IsNone(v)
    THEN IF ~col.nullable
         THEN RaiseMsg("ValueError", <<Lit("Column "), Txt(col.name),
                                       Lit(" cannot be null")>>)
         ELSE Ok(None)
    ELSE IF col.data_type = "INT"
         THEN IF IsInstanceFloat(v) /\ v.n % 2 # 0 THEN Raise("ValueError")
              ELSE ToInt(v)
    ELSE IF col.data_type = "FLOAT" THEN ToFloat(v)
    ELSE IF col.data_type = "VARCHAR"
         THEN LET str_value == ToStr(v)
              IN  IF Len(str_value) >= LengthLimit(col)
                  THEN RaiseMsg("ValueError", <<Lit("Cannot convert value for column "),
                                                Txt(col.name),
                                                Lit(": String too long for column "),
                                                Txt(col.name)>>)
                  ELSE Ok(PyStr(str_value))
    ELSE IF col.data_type = "BOOLEAN"
         THEN IF IsInstanceBool(v) THEN Ok(v)
              ELSE IF IsInstanceStr(v) THEN Ok(PyBool(Lower(v.s) \in TrueTexts))
              ELSE Ok(PyBool(v.n # 0))
    ELSE Ok(v)

\* Column.convert_value that lets None through whatever the column
convert_value_null_anywhere(col, v) ==
    IF IsNone(v) THEN Ok(None)
    ELSE IF col.data_type = "INT"
         THEN IF IsInstanceFloat(v) /\ v.n % 2 # 0 THEN Raise("ValueError")
              ELSE ToInt(v)
    ELSE IF col.data_type = "FLOAT" THEN ToFloat(v)
    ELSE IF col.data_type = "VARCHAR"
         THEN LET str_value == ToStr(v)
              IN  IF Len(str_value) > LengthLimit(col)
                  THEN RaiseMsg("ValueError", <<Lit("Cannot convert value for column "),
                                                Txt(col.name),
                                                Lit(": String too long for column "),
                                                Txt(col.name)>>)
                  ELSE Ok(PyStr(str_value))
    ELSE IF col.data_type = "BOOLEAN"
         THEN IF IsInstanceBool(v) THEN Ok(v)
              ELSE IF IsInstanceStr(v) THEN Ok(PyBool(Lower(v.s) \in TrueTexts))
              ELSE Ok(PyBool(v.n # 0))
    ELSE Ok(v)

\* Column.convert_value
convert_value(col, v) ==
    IF IsNone(v)
    THEN IF ~col.nullable
         THEN RaiseMsg("ValueError", <<Lit("Column "), Txt(col.name),
                                       Lit(" cannot be null")>>)
         ELSE Ok(None)
    ELSE IF col.data_type = "INT"
         THEN IF IsInstanceFloat(v) /\ v.n % 2 # 0 THEN Raise("ValueError")
              ELSE ToInt(v)
    ELSE IF col.data_type = "FLOAT" THEN ToFloat(v)
    ELSE IF col.data_type = "VARCHAR"
         THEN LET str_value == ToStr(v)
              IN  IF Len(str_value) > LengthLimit(col)
                  THEN RaiseMsg("ValueError", <<Lit("Cannot convert value for column "),
                                                Txt(col.name),
                                                Lit(": String too long for column "),
                                                Txt(col.name)>>)
                  ELSE Ok(PyStr(str_value))
    ELSE IF col.data_type = "BOOLEAN"
         THEN IF IsInstanceBool(v) THEN Ok(v)
              ELSE IF IsInstanceStr(v) THEN Ok(PyBool(Lower(v.s) \in TrueTexts))
              ELSE Ok(PyBool(v.n # 0))
    ELSE Ok(v)

----------------------------------------------------------------------------
(* Schema: the sequence of its columns *)

LowerNames(columns) == [i \in 1..Len(columns) |-> Lower(columns[i].name)]

\* Schema(columns)
Schema(columns) ==
    IF columns = <<>> THEN Raise("ValueError")
    ELSE IF Len(columns) # Cardinality({LowerNames(columns)[i] : i \in 1..Len(columns)})
         THEN Raise("ValueError")
    ELSE Ok(columns)

\* Schema.from_dict that does not read 'nullable'
from_dict_all_nullable(data) ==
    Let([i \in 1..Len(data) |->
           Column(data[i].name, data[i].data_type, TRUE, data[i].max_length)],
        LAMBDA made :
        IF \E i \in 1..Len(made) : ~made[i].ok
        THEN made[CHOOSE i \in 1..Len(made) :
                    ~made[i].ok /\ \A j \in 1..(i - 1) : made[j].ok]
        ELSE Schema([i \in 1..Len(made) |-> made[i].val]))

\* Schema.from_dict: data is the list under 'columns', each entry holding
\* name, data_type, nullable and max_length (NoLength: None, or no such key)
from_dict(data) ==
    Let([i \in 1..Len(data) |->
           Column(data[i].name, data[i].data_type, data[i].nullable,
                  data[i].max_length)], LAMBDA made :
        IF \E i \in 1..Len(made) : ~made[i].ok
        THEN made[CHOOSE i \in 1..Len(made) :
                    ~made[i].ok /\ \A j \in 1..(i - 1) : made[j].ok]
        ELSE Schema([i \in 1..Len(made) |-> made[i].val]))

\* Schema.to_dict: the list under 'columns'
to_dict(schema) ==
    [i \in 1..Len(schema) |->
       [name |-> schema[i].name, data_type |-> schema[i].data_type,
        nullable |-> schema[i].nullable, max_length |-> schema[i].max_length]]

\* get_column_names that gives the names in lower case, as the index keeps them
get_column_names_lower(schema) == [i \in 1..Len(schema) |-> Lower(schema[i].name)]

\* Schema.get_column_names
get_column_names(schema) == [i \in 1..Len(schema) |-> schema[i].name]

\* Schema.get_column_index: the index (from 1) of the column of that name,
\* compared in lower case; ValidationError when there is none
get_column_index(schema, name) ==
    LET hits == {i \in 1..Len(schema) : Lower(schema[i].name) = Lower(name)}
    IN  IF hits = {}
        THEN RaiseMsg("ValidationError", <<Lit("Column '"), Txt(name),
                                           Lit("' not found in schema")>>)
        ELSE Ok(CHOOSE i \in hits : \A j \in hits : j <= i)

\* Schema.validate_row
validate_row(schema, values) ==
    IF Len(values) # Len(schema) THEN FALSE
    ELSE \A i \in 1..Len(schema) : validate_value(schema[i], values[i])

\* Schema.convert_row: the first value that does not convert raises
RECURSIVE ConvertFrom(_, _, _)
ConvertFrom(schema, values, i) ==
    IF i > Len(schema) THEN Ok(<<>>)
    ELSE Let(convert_value(schema[i], values[i]), LAMBDA c :
             IF ~c.ok THEN c
             ELSE Let(ConvertFrom(schema, values, i + 1), LAMBDA rest :
                  IF ~rest.ok THEN rest ELSE Ok(<<c.val>> \o rest.val)))

convert_row(schema, values) ==
    IF Len(values) # Len(schema)
    THEN RaiseMsg("ValidationError", <<Lit("Expected "), Num(Len(schema)),
                                       Lit(" values"), Lit(", got "), Num(Len(values))>>)
    ELSE ConvertFrom(schema, values, 1)

\* Schema.validate_and_convert_row: every failure becomes ValidationError
validate_and_convert_row(schema, values) ==
    Let(convert_row(schema, values), LAMBDA converted :
        IF ~converted.ok
        THEN RaiseMsg("ValidationError",
                      <<Lit("Row validation failed: ")>> \o converted.msg)
        ELSE IF ~validate_row(schema, converted.val)
             THEN RaiseMsg("ValidationError",
                           <<Lit("Row validation failed: "),
                             Lit("Row validation failed after conversion")>>)
        ELSE converted)

----------------------------------------------------------------------------
(* Table: [name, schema, rows, row_count]; a row is the sequence of its values *)

\* Table(name, schema)
Table(name, schema) ==
    IF name = <<>> THEN Raise("ValueError")
    ELSE Ok([name |-> name, schema |-> schema, rows |-> <<>>, row_count |-> 0])

\* A call that changes the table or the registry yields [out, table] or
\* [out, tables]: how the call ended and the object as the call left it,
\* which after a raise is the object as the statements before the raise
\* left it.

\* the message of Table.insert for a row of the wrong length
RowHasValues(table, values) ==
    <<Lit("Row has "), Num(Len(values)), Lit(" values but table '"), Txt(table.name),
      Lit("' expects "), Num(Len(table.schema)), Lit(" columns")>>

\* Table.insert that puts the new row first
TableInsertFirst(table, values) ==
    IF Len(values) # Len(table.schema)
    THEN [out |-> RaiseMsg("ValidationError", RowHasValues(table, values)),
          table |-> table]
    ELSE Let(validate_and_convert_row(table.schema, values), LAMBDA validated :
             IF ~validated.ok THEN [out |-> validated, table |-> table]
             ELSE [out |-> Ok(<<>>),
                   table |-> [table EXCEPT !.rows = <<validated.val>> \o @,
                                           !.row_count = @ + 1]])

\* Table.insert that appends the row before it validates it
TableInsertAppendFirst(table, values) ==
    LET appended == [table EXCEPT !.rows = Append(@, values), !.row_count = @ + 1]
    IN  IF Len(values) # Len(table.schema)
        THEN [out |-> RaiseMsg("ValidationError", RowHasValues(table, values)),
              table |-> appended]
        ELSE Let(validate_and_convert_row(table.schema, values), LAMBDA validated :
                 IF ~validated.ok THEN [out |-> validated, table |-> appended]
                 ELSE [out |-> Ok(<<>>),
                       table |-> [table EXCEPT !.rows = Append(@, validated.val),
                                               !.row_count = @ + 1]])

\* Table.insert that leaves row_count as it was
TableInsertCountStale(table, values) ==
    IF Len(values) # Len(table.schema)
    THEN [out |-> RaiseMsg("ValidationError", RowHasValues(table, values)),
          table |-> table]
    ELSE Let(validate_and_convert_row(table.schema, values), LAMBDA validated :
             IF ~validated.ok THEN [out |-> validated, table |-> table]
             ELSE [out |-> Ok(<<>>),
                   table |-> [table EXCEPT !.rows = Append(@, validated.val)]])

\* Table.insert_values / Table.insert
TableInsert(table, values) ==
    IF Len(values) # Len(table.schema)
    THEN [out |-> RaiseMsg("ValidationError", RowHasValues(table, values)),
          table |-> table]
    ELSE Let(validate_and_convert_row(table.schema, values), LAMBDA validated :
             IF ~validated.ok THEN [out |-> validated, table |-> table]
             ELSE [out |-> Ok(<<>>),
                   table |-> [table EXCEPT !.rows = Append(@, validated.val),
                                           !.row_count = @ + 1]])

\* Table.scan
TableScan(table) == table.rows

\* Table.clear
TableClear(table) == [table EXCEPT !.rows = <<>>, !.row_count = 0]

----------------------------------------------------------------------------
(* StorageManager: self.tables maps the lower-cased name to the Table *)

\* str.strip() leaves nothing: blanks only
IsBlank(cs) == \A i \in 1..Len(cs) : cs[i] \in {32, 9, 10, 13}

\* self.tables[key] = table
SetItem(tbls, key, table) ==
    [k \in DOMAIN tbls \cup {key} |-> IF k = key THEN table ELSE tbls[k]]

\* StorageManager.create_table that registers the new table over an
\* existing one
create_table_replaces(tbls, name, schema) ==
    IF name = <<>> \/ IsBlank(name)
    THEN [out |-> Raise("ValidationError"), tables |-> tbls]
    ELSE IF ~ValidName(name) THEN [out |-> Raise("ValidationError"), tables |-> tbls]
    ELSE IF schema = <<>> THEN [out |-> Raise("ValidationError"), tables |-> tbls]
    ELSE Let(Table(name, schema), LAMBDA table :
             IF ~table.ok THEN [out |-> Wrap("StorageError", table), tables |-> tbls]
             ELSE [out |-> Ok(<<>>), tables |-> SetItem(tbls, Lower(name), table.val)])

\* StorageManager.create_table
create_table(tbls, name, schema) ==
    IF name = <<>> \/ IsBlank(name)
    THEN [out |-> Raise("ValidationError"), tables |-> tbls]
    ELSE IF ~ValidName(name) THEN [out |-> Raise("ValidationError"), tables |-> tbls]
    ELSE IF schema = <<>> THEN [out |-> Raise("ValidationError"), tables |-> tbls]
    ELSE IF Lower(name) \in DOMAIN tbls
         THEN [out |-> RaiseMsg("StorageError", <<Lit("Table '"), Txt(name),
                                                  Lit("' already exists")>>),
               tables |-> tbls]
    ELSE Let(Table(name, schema), LAMBDA table :
             IF ~table.ok THEN [out |-> Wrap("StorageError", table), tables |-> tbls]
             ELSE [out |-> Ok(<<>>), tables |-> SetItem(tbls, Lower(name), table.val)])

\* StorageManager.get_table that looks the name up as it is written
get_table_exact(tbls, name) ==
    IF name = <<>> \/ IsBlank(name) THEN Raise("ValidationError")
    ELSE IF name \notin DOMAIN tbls
         THEN IF DOMAIN tbls # {}
              THEN RaiseMsg("TableNotFoundError",
                            <<Lit("Table '"), Txt(name), Lit("' does not exist"),
                              Lit(". Available tables: "), Joined(DOMAIN tbls)>>)
              ELSE RaiseMsg("TableNotFoundError",
                            <<Lit("Table '"), Txt(name), Lit("' does not exist"),
                              Lit(". No tables have been created yet")>>)
    ELSE Ok(tbls[name])

\* StorageManager.get_table
get_table(tbls, name) ==
    IF name = <<>> \/ IsBlank(name) THEN Raise("ValidationError")
    ELSE IF Lower(name) \notin DOMAIN tbls
         THEN IF DOMAIN tbls # {}
              THEN RaiseMsg("TableNotFoundError",
                            <<Lit("Table '"), Txt(name), Lit("' does not exist"),
                              Lit(". Available tables: "), Joined(DOMAIN tbls)>>)
              ELSE RaiseMsg("TableNotFoundError",
                            <<Lit("Table '"), Txt(name), Lit("' does not exist"),
                              Lit(". No tables have been created yet")>>)
    ELSE Ok(tbls[Lower(name)])

\* StorageManager.drop_table
drop_table(tbls, name) ==
    IF Lower(name) \notin DOMAIN tbls
    THEN [out |-> RaiseMsg("TableNotFoundError",
                           <<Lit("Table '"), Txt(name), Lit("' does not exist")>>),
          tables |-> tbls]
    ELSE [out |-> Ok(<<>>),
          tables |-> [k \in DOMAIN tbls \ {Lower(name)} |-> tbls[k]]]

\* StorageManager.table_exists
table_exists(tbls, name) == Lower(name) \in DOMAIN tbls

\* the exception classes bound in storage_manager.py
StorageImports == {"TableNotFoundError", "StorageError", "ValidationError"}

\* StorageManager.insert_values; the Table object in the registry is the
\* one Table.insert changes
insert_values(tbls, table_name, values) ==
    IF values = <<>> THEN [out |-> Raise("ValidationError"), tables |-> tbls]
    ELSE Let(get_table(tbls, table_name), LAMBDA table :
             IF ~table.ok
             THEN [out |-> Except(table, {"ValidationError", "TableNotFoundError"},
                                  StorageImports, "StorageError"),
                   tables |-> tbls]
             ELSE Let(TableInsert(table.val, values), LAMBDA after :
                  [out |-> Except(after.out, {"ValidationError", "TableNotFoundError"},
                                  StorageImports, "StorageError"),
                   tables |-> [tbls EXCEPT ![Lower(table_name)] = after.table]]))

\* StorageManager.scan_table
scan_table(tbls, table_name) ==
    Let(get_table(tbls, table_name), LAMBDA table :
        IF ~table.ok THEN table ELSE Ok(TableScan(table.val)))

\* StorageManager.clear_table that empties every registered table
clear_table_every(tbls, table_name) ==
    Let(get_table(tbls, table_name), LAMBDA table :
        IF ~table.ok THEN [out |-> table, tables |-> tbls]
        ELSE [out |-> Ok(<<>>),
              tables |-> [k \in DOMAIN tbls |-> TableClear(tbls[k])]])

\* StorageManager.clear_table
clear_table(tbls, table_name) ==
    Let(get_table(tbls, table_name), LAMBDA table :
        IF ~table.ok THEN [out |-> table, tables |-> tbls]
        ELSE [out |-> Ok(<<>>),
              tables |-> [tbls EXCEPT ![Lower(table_name)] = TableClear(table.val)]])

----------------------------------------------------------------------------
(* WhereClause: [column, operator, value] *)

VALID_OPERATORS == {"=", ">", "<", ">=", "<=", "!=", "<>"}

\* Python's x == y for values that are not None: numbers (bool included)
\* by value, texts by content, a text never equals a number
PyEq(x, y) ==
    IF IsInstanceStr(x) /\ IsInstanceStr(y) THEN x.s = y.s
    ELSE IF IsInstanceStr(x) \/ IsInstanceStr(y) THEN FALSE
    ELSE Halves(x) = Halves(y)

\* Python's x < y for values that are not None; TypeError between a text
\* and a number
PyLt(x, y) ==
    IF IsInstanceStr(x) /\ IsInstanceStr(y) THEN Ok(StrCmp(x.s, y.s) < 0)
    ELSE IF IsInstanceStr(x) \/ IsInstanceStr(y) THEN Raise("TypeError")
    ELSE Ok(Halves(x) < Halves(y))

\* Python's x <= y
PyLe(x, y) ==
    IF IsInstanceStr(x) /\ IsInstanceStr(y) THEN Ok(StrCmp(x.s, y.s) <= 0)
    ELSE IF IsInstanceStr(x) \/ IsInstanceStr(y) THEN Raise("TypeError")
    ELSE Ok(Halves(x) <= Halves(y))

\* the comparison of WhereClause.evaluate's try block
Compare(operator, row_value, value) ==
    IF operator = "=" THEN Ok(PyEq(row_value, value))
    ELSE IF operator \in {"!=", "<>"} THEN Ok(~PyEq(row_value, value))
    ELSE IF operator = ">" THEN PyLt(value, row_value)
    ELSE IF operator = "<" THEN PyLt(row_value, value)
    ELSE IF operator = ">=" THEN PyLe(value, row_value)
    ELSE IF operator = "<=" THEN PyLe(row_value, value)
    ELSE Ok(FALSE)

\* WhereClause.evaluate whose '=' is false whenever a Null is involved
evaluate_null_never_equal(where, row_value) ==
    IF IsNone(row_value) \/ IsNone(where.value)
    THEN IF where.operator \in {"!=", "<>"}
         THEN Ok(IsNone(row_value) # IsNone(where.value))
         ELSE Ok(FALSE)
    ELSE Let(Compare(where.operator, row_value, where.value), LAMBDA c :
             IF ~c.ok /\ c.err = "TypeError" THEN Ok(FALSE) ELSE c)

\* WhereClause.evaluate without the except TypeError clause
evaluate_uncaught(where, row_value) ==
    IF IsNone(row_value) \/ IsNone(where.value)
    THEN IF where.operator \in {"=", "!=", "<>"}
         THEN Ok(IF where.operator = "="
                 THEN IsNone(row_value) = IsNone(where.value)
                 ELSE IsNone(row_value) # IsNone(where.value))
         ELSE Ok(FALSE)
    ELSE Compare(where.operator, row_value, where.value)

\* WhereClause.evaluate
evaluate(where, row_value) ==
    IF IsNone(row_value) \/ IsNone(where.value)
    THEN IF where.operator \in {"=", "!=", "<>"}
         THEN Ok(IF where.operator = "="
                 THEN IsNone(row_value) = IsNone(where.value)
                 ELSE IsNone(row_value) # IsNone(where.value))
         ELSE Ok(FALSE)
    ELSE Let(Compare(where.operator, row_value, where.value), LAMBDA c :
             IF ~c.ok /\ c.err = "TypeError" THEN Ok(FALSE) ELSE c)

----------------------------------------------------------------------------
(* AST nodes and operations *)

\* where_clause None is <<>>, a WhereClause w is <<w>>
NoWhere == [column |-> <<>>, operator |-> "", value |-> None]

CreateTableNode(table_name, columns) ==
    [kind |-> "CreateTableNode", table_name |-> table_name, coldefs |-> columns,
     values |-> <<>>, columns |-> <<>>, where_clause |-> <<>>]
InsertNode(table_name, values) ==
    [kind |-> "InsertNode", table_name |-> table_name, coldefs |-> <<>>,
     values |-> values, columns |-> <<>>, where_clause |-> <<>>]
SelectNode(table_name, columns, where_clause) ==
    [kind |-> "SelectNode", table_name |-> table_name, coldefs |-> <<>>,
     values |-> <<>>, columns |-> columns, where_clause |-> where_clause]

CreateTableOperation(table_name, schema) ==
    [kind |-> "CreateTableOperation", table_name |-> table_name, schema |-> schema,
     values |-> <<>>, columns |-> <<>>, where_clause |-> NoWhere]
InsertOperation(table_name, values) ==
    [kind |-> "InsertOperation", table_name |-> table_name, schema |-> <<>>,
     values |-> values, columns |-> <<>>, where_clause |-> NoWhere]
ScanOperation(table_name) ==
    [kind |-> "ScanOperation", table_name |-> table_name, schema |-> <<>>,
     values |-> <<>>, columns |-> <<>>, where_clause |-> NoWhere]
ProjectOperation(columns) ==
    [kind |-> "ProjectOperation", table_name |-> <<>>, schema |-> <<>>,
     values |-> <<>>, columns |-> columns, where_clause |-> NoWhere]
FilterOperation(where_clause) ==
    [kind |-> "FilterOperation", table_name |-> <<>>, schema |-> <<>>,
     values |-> <<>>, columns |-> <<>>, where_clause |-> where_clause]

\* the column list of SELECT *
Star == <<<<42>>>>

\* what an operation returns: a str (text and the name it quotes) or a list of rows
StrResult(text, name) == [type |-> "str", text |-> text, name |-> name, rows |-> <<>>]
ListResult(rows) == [type |-> "list", text |-> "", name |-> <<>>, rows |-> rows]

\* CreateTableOperation.execute
CreateTableExecute(op, tbls) ==
    Let(create_table(tbls, op.table_name, op.schema), LAMBDA created :
        IF ~created.out.ok THEN created
        ELSE [out |-> Ok(StrResult("created successfully", op.table_name)),
              tables |-> created.tables])

\* InsertOperation.execute
InsertExecute(op, tbls) ==
    Let(get_table(tbls, op.table_name), LAMBDA table :
        IF ~table.ok THEN [out |-> table, tables |-> tbls]
        ELSE Let(insert_values(tbls, op.table_name, op.values), LAMBDA stored :
             IF ~stored.out.ok THEN stored
             ELSE [out |-> Ok(StrResult("1 row inserted", table.val.name)),
                   tables |-> stored.tables]))

\* ScanOperation.execute
ScanExecute(op, tbls) ==
    Let(scan_table(tbls, op.table_name), LAMBDA rows :
        [out |-> IF ~rows.ok THEN rows ELSE Ok(ListResult(rows.val)), tables |-> tbls])

\* the indices of the named columns, or ColumnNotFoundError at the first
\* name the schema does not have
RECURSIVE ColumnIndices(_, _, _)
ColumnIndices(schema, names, table_name) ==
    IF names = <<>> THEN Ok(<<>>)
    ELSE Let(get_column_index(schema, Head(names)), LAMBDA col_index :
             IF ~col_index.ok
             THEN RaiseMsg("ColumnNotFoundError",
                           <<Lit("Column '"), Txt(Head(names)),
                             Lit("' not found in table '"), Txt(table_name), Lit("'")>>)
             ELSE Let(ColumnIndices(schema, Tail(names), table_name), LAMBDA rest :
                  IF ~rest.ok THEN rest ELSE Ok(<<col_index.val>> \o rest.val)))

\* the members of a set of indices, in ascending order
RECURSIVE Ascending(_)
Ascending(indices) ==
    IF indices = {} THEN <<>>
    ELSE LET least == CHOOSE i \in indices : \A j \in indices : i <= j
         IN  <<least>> \o Ascending(indices \ {least})

\* ProjectOperation.execute that takes the columns in schema order
ProjectExecuteSchemaOrder(op, tbls, input_rows, table_name) ==
    IF input_rows = <<>> THEN Ok(<<>>)
    ELSE Let(get_table(tbls, table_name), LAMBDA table :
             IF ~table.ok THEN table
             ELSE IF Len(op.columns) = 1 /\ op.columns[1] = <<42>> THEN Ok(input_rows)
             ELSE Let(ColumnIndices(table.val.schema, op.columns, table_name),
                      LAMBDA column_indices :
                  IF ~column_indices.ok THEN column_indices
                  ELSE Let(Ascending({column_indices.val[k] :
                                        k \in 1..Len(column_indices.val)}), LAMBDA sorted :
                       Ok([r \in 1..Len(input_rows) |->
                             [k \in 1..Len(sorted) |-> input_rows[r][sorted[k]]]]))))

\* ProjectOperation.execute(storage, input_rows, table_name); the rows it returns
ProjectExecute(op, tbls, input_rows, table_name) ==
    IF input_rows = <<>> THEN Ok(<<>>)
    ELSE Let(get_table(tbls, table_name), LAMBDA table :
             IF ~table.ok THEN table
             ELSE IF Len(op.columns) = 1 /\ op.columns[1] = <<42>> THEN Ok(input_rows)
             ELSE Let(ColumnIndices(table.val.schema, op.columns, table_name),
                      LAMBDA column_indices :
                  IF ~column_indices.ok THEN column_indices
                  ELSE Ok([r \in 1..Len(input_rows) |->
                             [k \in 1..Len(column_indices.val) |->
                                input_rows[r][column_indices.val[k]]]])))

\* the loop of FilterOperation.execute, over the rows in order
RECURSIVE FilterRows(_, _, _)
FilterRows(where, column_index, rows) ==
    IF rows = <<>> THEN Ok(<<>>)
    ELSE Let(evaluate(where, Head(rows)[column_index]), LAMBDA keep :
             IF ~keep.ok THEN keep
             ELSE Let(FilterRows(where, column_index, Tail(rows)), LAMBDA rest :
                  IF ~rest.ok THEN rest
                  ELSE Ok((IF keep.val THEN <<Head(rows)>> ELSE <<>>) \o rest.val)))

\* FilterOperation.execute that returns the rows it kept newest first
FilterExecuteNewestFirst(op, tbls, input_rows, table_name) ==
    IF input_rows = <<>> THEN Ok(<<>>)
    ELSE Let(get_table(tbls, table_name), LAMBDA table :
             IF ~table.ok THEN table
             ELSE Let(get_column_index(table.val.schema, op.where_clause.column),
                      LAMBDA column_index :
                  IF ~column_index.ok
                  THEN RaiseMsg("ColumnNotFoundError",
                                <<Lit("Column '"), Txt(op.where_clause.column),
                                  Lit("' not found in table '"), Txt(table_name),
                                  Lit("'")>>)
                  ELSE Let(FilterRows(op.where_clause, column_index.val, input_rows),
                           LAMBDA kept :
                       IF ~kept.ok THEN kept
                       ELSE Ok([i \in 1..Len(kept.val) |->
                                  kept.val[Len(kept.val) + 1 - i]]))))

\* FilterOperation.execute(storage, input_rows, table_name); the rows it returns
FilterExecute(op, tbls, input_rows, table_name) ==
    IF input_rows = <<>> THEN Ok(<<>>)
    ELSE Let(get_table(tbls, table_name), LAMBDA table :
             IF ~table.ok THEN table
             ELSE Let(get_column_index(table.val.schema, op.where_clause.column),
                      LAMBDA column_index :
                  IF ~column_index.ok
                  THEN RaiseMsg("ColumnNotFoundError",
                                <<Lit("Column '"), Txt(op.where_clause.column),
                                  Lit("' not found in table '"), Txt(table_name),
                                  Lit("'")>>)
                  ELSE FilterRows(op.where_clause, column_index.val, input_rows)))

\* Operation.execute(storage) as execute_operation calls it, without input
\* rows: Project and Filter raise ValueError
OperationExecute(op, tbls) ==
    IF op.kind = "CreateTableOperation" THEN CreateTableExecute(op, tbls)
    ELSE IF op.kind = "InsertOperation" THEN InsertExecute(op, tbls)
    ELSE IF op.kind = "ScanOperation" THEN ScanExecute(op, tbls)
    ELSE [out |-> Raise("ValueError"), tables |-> tbls]

----------------------------------------------------------------------------
(* QueryProcessor *)

\* the exception classes bound in query_processor.py
ProcessorImports == {"ProcessingError", "ValidationError"}

\* QueryProcessor.visit_create_table
visit_create_table(node) ==
    Except(IF node.table_name = <<>> THEN Raise("ProcessingError")
           ELSE IF node.coldefs = <<>> THEN Raise("ProcessingError")
           ELSE Let(Schema(node.coldefs), LAMBDA schema :
                    IF ~schema.ok THEN schema
                    ELSE Ok(<<CreateTableOperation(node.table_name, schema.val)>>)),
           {"ProcessingError"}, ProcessorImports, "ProcessingError")

\* QueryProcessor.visit_insert
visit_insert(node) ==
    Except(IF node.table_name = <<>> THEN Raise("ProcessingError")
           ELSE IF node.values = <<>> THEN Raise("ProcessingError")
           ELSE Ok(<<InsertOperation(node.table_name, node.values)>>),
           {"ProcessingError"}, ProcessorImports, "ProcessingError")

\* QueryProcessor.visit_select that adds the filter after the projection
visit_select_filter_last(node) ==
    Except(IF node.table_name = <<>> THEN Raise("ProcessingError")
           ELSE IF node.columns = <<>> THEN Raise("ProcessingError")
           ELSE Ok(<<ScanOperation(node.table_name)>>
                   \o <<ProjectOperation(node.columns)>>
                   \o (IF node.where_clause # <<>>
                       THEN <<FilterOperation(node.where_clause[1])>> ELSE <<>>)),
           {"ProcessingError"}, ProcessorImports, "ProcessingError")

\* QueryProcessor.visit_select
visit_select(node) ==
    Except(IF node.table_name = <<>> THEN Raise("ProcessingError")
           ELSE IF node.columns = <<>> THEN Raise("ProcessingError")
           ELSE Ok(<<ScanOperation(node.table_name)>>
                   \o (IF node.where_clause # <<>>
                       THEN <<FilterOperation(node.where_clause[1])>> ELSE <<>>)
                   \o <<ProjectOperation(node.columns)>>),
           {"ProcessingError"}, ProcessorImports, "ProcessingError")

\* ASTNode.accept
accept(node) ==
    IF node.kind = "CreateTableNode" THEN visit_create_table(node)
    ELSE IF node.kind = "InsertNode" THEN visit_insert(node)
    ELSE visit_select(node)

\* QueryProcessor.process: the plan, as the sequence of its operations
process(node) ==
    IF node.kind = "None" THEN Raise("ProcessingError")
    ELSE Except(accept(node),
                {"ValidationError", "TableNotFoundError", "ColumnNotFoundError"},
                ProcessorImports, "ProcessingError")

----------------------------------------------------------------------------
(* ExecutionEngine *)

\* message None
NoMessage == [text |-> "", name |-> <<>>]

\* QueryResult(columns, rows, message)
QueryResult(columns, rows, message) ==
    [columns |-> columns, rows |-> rows, message |-> message]

\* QueryResult.is_data_result that looks at the rows only
is_data_result_rows_only(result) == result.rows # <<>>

\* QueryResult.is_data_result
is_data_result(result) == result.columns # <<>> \/ result.rows # <<>>
\* QueryResult.is_message_result
is_message_result(result) == result.message.text # ""

\* the exception classes bound in execution_engine.py
EngineImports == {"ExecutionError", "StorageError", "ValidationError",
                  "TableNotFoundError", "ColumnNotFoundError"}

\* ExecutionEngine.execute_operation
execute_operation(op, tbls) ==
    Let(OperationExecute(op, tbls), LAMBDA ran :
        [out |-> Except(IF ~ran.out.ok THEN ran.out
                        ELSE IF ran.out.val.type = "str"
                             THEN Ok(QueryResult(<<>>, <<>>,
                                     [text |-> ran.out.val.text,
                                      name |-> ran.out.val.name]))
                        ELSE Ok(QueryResult(<<>>, <<>>,
                                [text |-> "str(result)", name |-> <<>>])),
                        {"StorageError", "ValidationError", "TableNotFoundError",
                         "ColumnNotFoundError", "ProcessingError"},
                        EngineImports, "ExecutionError"),
         tables |-> ran.tables])

\* the last operation of that class in the plan, <<>> when there is none
LastOfKind(operations, kind) ==
    LET at == {i \in 1..Len(operations) : operations[i].kind = kind}
    IN  IF at = {} THEN <<>>
        ELSE <<operations[CHOOSE i \in at : \A j \in at : j <= i]>>

\* the try block of ExecutionEngine._execute_select_operations, given the
\* scan, filter and project operations its loop found (<<>>: none)
SelectBody(scan_op, filter_op, project_op, tbls) ==
    IF scan_op = <<>> THEN Raise("ExecutionError")
    ELSE IF project_op = <<>> THEN Raise("ExecutionError")
    ELSE
      Let(ScanExecute(scan_op[1], tbls).out, LAMBDA scanned :
      IF ~scanned.ok THEN scanned
      ELSE
        Let(IF filter_op # <<>>
            THEN FilterExecute(filter_op[1], tbls, scanned.val.rows,
                               scan_op[1].table_name)
            ELSE Ok(scanned.val.rows), LAMBDA rows :
        IF ~rows.ok THEN rows
        ELSE
          Let(ProjectExecute(project_op[1], tbls, rows.val, scan_op[1].table_name),
              LAMBDA projected_rows :
          IF ~projected_rows.ok THEN projected_rows
          ELSE IF Len(project_op[1].columns) = 1 /\ project_op[1].columns[1] = <<42>>
               THEN Let(get_table(tbls, scan_op[1].table_name), LAMBDA table :
                    IF ~table.ok THEN table
                    ELSE Ok(QueryResult(get_column_names(table.val.schema),
                                        projected_rows.val, NoMessage)))
          ELSE Ok(QueryResult(project_op[1].columns, projected_rows.val, NoMessage)))))

\* ExecutionEngine._execute_select_operations
execute_select_operations(operations, tbls) ==
    [out |-> Except(SelectBody(LastOfKind(operations, "ScanOperation"),
                               LastOfKind(operations, "FilterOperation"),
                               LastOfKind(operations, "ProjectOperation"), tbls),
                    {"StorageError", "ValidationError", "TableNotFoundError",
                     "ColumnNotFoundError"},
                    EngineImports, "ExecutionError"),
     tables |-> tbls]

\* the loop of ExecutionEngine.execute over the operations of a plan that
\* is not a SELECT: each runs against the storage the one before it left
RECURSIVE RunOperations(_, _, _)
RunOperations(operations, tbls, result) ==
    IF operations = <<>> THEN [out |-> Ok(result), tables |-> tbls]
    ELSE Let(execute_operation(Head(operations), tbls), LAMBDA ran :
             IF ~ran.out.ok THEN ran
             ELSE RunOperations(Tail(operations), ran.tables, ran.out.val))

\* ExecutionEngine.execute whose loop runs the last operation only
execute_last_only(plan, tbls) ==
    Let(IF plan = <<>>
        THEN [out |-> Ok(QueryResult(<<>>, <<>>,
                         [text |-> "No operations to execute.", name |-> <<>>])),
              tables |-> tbls]
        ELSE IF Len(plan) >= 2
                /\ \E i \in 1..Len(plan) : plan[i].kind = "ScanOperation"
             THEN execute_select_operations(plan, tbls)
        ELSE RunOperations(<<plan[Len(plan)]>>, tbls, QueryResult(<<>>, <<>>, NoMessage)),
        LAMBDA body :
        [out |-> Except(body.out, {"StorageError", "ValidationError", "TableNotFoundError",
                                   "ColumnNotFoundError", "ProcessingError"},
                        EngineImports, "ExecutionError"),
         tables |-> body.tables])

\* ExecutionEngine.execute
execute(plan, tbls) ==
    Let(IF plan = <<>>
        THEN [out |-> Ok(QueryResult(<<>>, <<>>,
                         [text |-> "No operations to execute.", name |-> <<>>])),
              tables |-> tbls]
        ELSE IF Len(plan) >= 2
                /\ \E i \in 1..Len(plan) : plan[i].kind = "ScanOperation"
             THEN execute_select_operations(plan, tbls)
        ELSE RunOperations(plan, tbls, QueryResult(<<>>, <<>>, NoMessage)),
        LAMBDA body :
        [out |-> Except(body.out, {"StorageError", "ValidationError", "TableNotFoundError",
                                   "ColumnNotFoundError", "ProcessingError"},
                        EngineImports, "ExecutionError"),
         tables |-> body.tables])

----------------------------------------------------------------------------
(* SQLParser.parse and SQLEngine.execute_sql *)

\* str.upper()
Upper(cs) == [i \in 1..Len(cs) |-> IF IsLowerCh(cs[i]) THEN cs[i] - 32 ELSE cs[i]]

KwCREATE == <<67, 82, 69, 65, 84, 69>>
KwINSERT == <<73, 78, 83, 69, 82, 84>>
KwSELECT == <<83, 69, 76, 69, 67, 84>>

\* SQLParser._parse_single_column on the tokens name, data type (in upper
\* case) and, where length is not NoLength, '(' length ')'
parse_single_column(column_name, data_type, length) ==
    IF column_name = <<>> \/ ~ValidName(column_name) THEN Raise("ParseError")
    ELSE IF data_type \notin ValidTypes THEN Raise("ParseError")
    ELSE IF data_type = "VARCHAR" /\ length # NoLength
         THEN IF length <= 0 \/ length > 65535 THEN Raise("ParseError")
              ELSE Column(column_name, data_type, TRUE, length)
    ELSE Column(column_name, data_type, TRUE, NoLength)

\* A statement is [command, node]: its first token, and the node that the
\* grammar of that command builds from the rest of the text.
\* SQLParser.parse: the dispatch on the first token, and the test of the
\* CREATE TABLE grammar that no column name comes twice
parse(sql) ==
    LET command == Upper(sql.command)
    IN  IF command = KwCREATE /\ sql.node.kind = "CreateTableNode"
        THEN IF Len(sql.node.coldefs)
                  # Cardinality({LowerNames(sql.node.coldefs)[i] :
                                   i \in 1..Len(sql.node.coldefs)})
             THEN Raise("ParseError")
             ELSE Ok(sql.node)
        ELSE IF command = KwINSERT /\ sql.node.kind = "InsertNode" THEN Ok(sql.node)
        ELSE IF command = KwSELECT /\ sql.node.kind = "SelectNode" THEN Ok(sql.node)
        ELSE Raise("ParseError")

\* SQLEngineError and its subclasses
SQLEngineErrors == {"SQLEngineError", "ParseError", "ValidationError",
                    "TableNotFoundError", "ColumnNotFoundError", "StorageError",
                    "ProcessingError", "ExecutionError"}

\* SQLEngine.execute_sql: [out, tables, plan, exec], where plan and exec are
\* what process and execute gave (<<>> when the call was not reached)
execute_sql(sql, tbls) ==
    Let(parse(sql), LAMBDA ast :
    Let(IF ast.ok THEN process(ast.val) ELSE ast, LAMBDA plan :
    Let(IF plan.ok THEN execute(plan.val, tbls) ELSE [out |-> plan, tables |-> tbls],
        LAMBDA ran :
        [out |-> Except(ran.out, SQLEngineErrors, SQLEngineErrors, "SQLEngineError"),
         tables |-> ran.tables,
         plan |-> IF ast.ok THEN <<plan>> ELSE <<>>,
         exec |-> IF ast.ok /\ plan.ok THEN <<ran.out>> ELSE <<>>])))

----------------------------------------------------------------------------
(* The statements and values of the model *)

NameT == <<116>>          \* t
NameTUpper == <<84>>      \* T
NameU == <<117>>          \* u
ColA == <<97>>            \* a
ColB == <<98>>            \* b
ColBUpper == <<66>>       \* B
ColC == <<99>>            \* c

Text1 == <<49>>           \* '1'
TextAbc == <<97, 98, 99>> \* 'abc'

\* the values an INSERT or a WHERE clause carries: None, True, 2, 1.5, 2.0,
\* '1', 'abc'
Values == {None, PyBool(TRUE), PyInt(2), PyFloat(3), PyFloat(4),
           PyStr(Text1), PyStr(TextAbc)}

\* (a INT NOT NULL, b VARCHAR(2))
ColumnsA == <<Column(ColA, "INT", FALSE, NoLength).val,
              Column(ColB, "VARCHAR", TRUE, 2).val>>
\* (a FLOAT, B BOOLEAN NOT NULL)
ColumnsB == <<Column(ColA, "FLOAT", TRUE, NoLength).val,
              Column(ColBUpper, "BOOLEAN", FALSE, NoLength).val>>
\* (c VARCHAR)
ColumnsC == <<Column(ColC, "VARCHAR", TRUE, NoLength).val>>
\* (b INT, B INT): the same name twice
ColumnsDup == <<Column(ColB, "INT", TRUE, NoLength).val,
                Column(ColBUpper, "INT", TRUE, NoLength).val>>

CreateNodes ==
    {CreateTableNode(NameT, ColumnsA), CreateTableNode(NameTUpper, ColumnsB),
     CreateTableNode(NameU, ColumnsC), CreateTableNode(NameU, ColumnsDup)}

ValueLists == {<<v>> : v \in Values} \cup {<<v, w>> : v \in Values, w \in Values}

InsertNodes == {InsertNode(n, vs) : n \in {NameTUpper, NameU}, vs \in ValueLists}

WhereClauses ==
    {[column |-> ColA, operator |-> ">", value |-> PyFloat(3)],
     [column |-> ColB, operator |-> "=", value |-> None],
     [column |-> ColB, operator |-> "!=", value |-> PyStr(Text1)],
     [column |-> ColC, operator |-> "<=", value |-> PyStr(TextAbc)]}

ColumnLists == {Star, <<ColA>>, <<ColB>>, <<ColB, ColA>>, <<ColC>>}

SelectNodes ==
    {SelectNode(n, cols, w) : n \in {NameTUpper, NameU}, cols \in ColumnLists,
                              w \in {<<>>} \cup {<<x>> : x \in WhereClauses}}

KwCreateLower == <<99, 114, 101, 97, 116, 101>>   \* create
KwDELETE == <<68, 69, 76, 69, 84, 69>>

NoNode == [kind |-> "None", table_name |-> <<>>, coldefs |-> <<>>,
           values |-> <<>>, columns |-> <<>>, where_clause |-> <<>>]

----------------------------------------------------------------------------
(* The engine as a state machine.                                           *)
(*   tables   : StorageManager.tables                                       *)
(*   inserted : per registered table, the converted rows of the INSERTs     *)
(*              that succeeded, in the order they succeeded (history)       *)
(*   last     : the statement that has just run: its text, the storage it   *)
(*              ran against, and how parse, process, execute and            *)
(*              execute_sql ended; [done |-> FALSE] once the caller has     *)
(*              taken the result                                            *)
(*   call     : the call of a pure function under study (other              *)
(*              specifications)                                             *)
(***************************************************************************)

Idle == [done |-> FALSE]
NoCall == [fn |-> "none"]

\* the rows held by the tables of the registry, all together
RECURSIVE TotalRows(_, _)
TotalRows(tbls, keys) ==
    IF keys = {} THEN 0
    ELSE LET k == CHOOSE x \in keys : TRUE
         IN  Len(tbls[k].rows) + TotalRows(tbls, keys \ {k})

Init ==
    /\ tables = <<>>
    /\ inserted = <<>>
    /\ last = Idle
    /\ call = NoCall


\* the history after statement sql ended as out against storage tbls
History(hist, tbls, sql, out) ==
    IF ~out.ok THEN hist
    ELSE IF sql.node.kind = "CreateTableNode"
         THEN SetItem(hist, Lower(sql.node.table_name), <<>>)
    ELSE IF sql.node.kind = "InsertNode"
         THEN LET key == Lower(sql.node.table_name)
              IN  [hist EXCEPT ![key] =
                     Append(@, convert_row(tbls[key].schema, sql.node.values).val)]
    ELSE hist

\* one call of SQLEngine.execute_sql(sql)
Statement(sql) ==
    /\ ~last.done
    /\ Let(execute_sql(sql, tables), LAMBDA ran :
           /\ tables' = ran.tables
           /\ inserted' = History(inserted, tables, sql, ran.out)
           /\ last' = [done |-> TRUE, sql |-> sql, before |-> tables,
                       out |-> ran.out, plan |-> ran.plan, exec |-> ran.exec])
    /\ UNCHANGED call

CreateTableStatement ==
    \E node \in CreateNodes : Statement([command |-> KwCreateLower, node |-> node])

InsertStatement ==
    /\ TotalRows(tables, DOMAIN tables) < MaxRows
    /\ \E node \in InsertNodes : Statement([command |-> KwINSERT, node |-> node])

SelectStatement ==
    \E node \in SelectNodes : Statement([command |-> KwSELECT, node |-> node])

UnsupportedStatement == Statement([command |-> KwDELETE, node |-> NoNode])

\* the caller takes the result; the engine is ready for the next statement
TakeResult ==
    /\ last.done
    /\ last' = Idle
    /\ UNCHANGED <<tables, inserted, call>>

Next ==
    \/ CreateTableStatement
    \/ InsertStatement
    \/ SelectStatement
    \/ UnsupportedStatement
    \/ TakeResult

Spec == Init /\ [][Next]_vars

----------------------------------------------------------------------------
(* The operations and functions called one at a time, as the tests call    *)
(* them, against a storage that holds tables t (a INT NOT NULL,            *)
(* b VARCHAR(2)) and u (c VARCHAR).                                        *)
(*   call : the call that has just been made, its arguments and how it     *)
(*          ended; NoCall once the caller has taken the result             *)
(***************************************************************************)

NameX == <<120>>          \* x, a table that is not registered
TextAb == <<97, 98>>      \* 'ab'

\* rows as table t holds them
RowsT == {<<a, b>> : a \in {PyInt(1), PyInt(2)},
                     b \in {None, PyStr(Text1), PyStr(TextAb)}}

\* the lists of rows handed to FilterOperation.execute
InputRows == UNION {[1..n -> RowsT] : n \in 0..MaxInput}

\* WHERE clauses over a, B (column b) and c (not a column of t)
FilterWheres ==
    {[column |-> c, operator |-> o, value |-> v] :
        c \in {ColA, ColBUpper, ColC}, o \in VALID_OPERATORS,
        v \in {None, PyInt(1), PyFloat(3), PyStr(Text1)}}

\* row values and literals: None, True, False, 0, 1, 2, 1.0, 1.5, '1',
\* 'ab', 'abc'
EvalValues == {None, PyBool(TRUE), PyBool(FALSE), PyInt(0), PyInt(1), PyInt(2),
               PyFloat(2), PyFloat(3), PyStr(Text1), PyStr(TextAb), PyStr(TextAbc)}

\* the nodes handed to QueryProcessor.process
ProcessNodes == SelectNodes \cup CreateNodes \cup InsertNodes \cup {NoNode}

CallsInit ==
    /\ tables = create_table(create_table(<<>>, NameT, ColumnsA).tables,
                             NameU, ColumnsC).tables
    /\ inserted = [k \in {NameT, NameU} |-> <<>>]
    /\ last = Idle
    /\ call = NoCall

\* FilterOperation(where).execute(storage, input_rows, table_name)
FilterOnce ==
    /\ call = NoCall
    /\ \E where \in FilterWheres, input_rows \in InputRows,
          table_name \in {NameTUpper, NameX} :
         call' = [fn |-> "filter", where |-> where, input_rows |-> input_rows,
                  table_name |-> table_name,
                  out |-> FilterExecute(FilterOperation(where), tables,
                                        input_rows, table_name),
                  again |-> <<>>]
    /\ UNCHANGED <<tables, inserted, last>>

\* the same operation executed on the rows it has just returned
FilterAgain ==
    /\ call.fn = "filter"
    /\ call.out.ok
    /\ call.again = <<>>
    /\ call' = [call EXCEPT !.again =
                   <<FilterExecute(FilterOperation(call.where), tables,
                                   call.out.val, call.table_name)>>]
    /\ UNCHANGED <<tables, inserted, last>>

\* WhereClause(column, operator, value).evaluate(row_value)
Evaluate ==
    /\ call = NoCall
    /\ \E operator \in VALID_OPERATORS, value \in EvalValues, row_value \in EvalValues :
         call' = [fn |-> "evaluate",
                  where |-> [column |-> ColA, operator |-> operator, value |-> value],
                  row_value |-> row_value,
                  out |-> evaluate([column |-> ColA, operator |-> operator,
                                    value |-> value], row_value)]
    /\ UNCHANGED <<tables, inserted, last>>

\* QueryProcessor.process(node)
Process ==
    /\ call = NoCall
    /\ \E node \in ProcessNodes :
         call' = [fn |-> "process", node |-> node, out |-> process(node)]
    /\ UNCHANGED <<tables, inserted, last>>

\* the columns a row is inserted into: a, of each type, nullable or not, a
\* VARCHAR being VARCHAR(2)
InsertColumns ==
    {Column(ColA, data_type, nullable,
            IF data_type = "VARCHAR" THEN 2 ELSE NoLength).val :
        data_type \in ValidTypes, nullable \in BOOLEAN}

\* the values inserted into column a: None, '1', 'ab', 'abc', 2, 1.5, True
InsertValues == {None, PyStr(Text1), PyStr(TextAb), PyStr(TextAbc), PyInt(2),
                 PyFloat(3), PyBool(TRUE)}

\* the record of table.insert_values(values) on a table (c INT, a ...)
Inserted(table, values) ==
    Let(TableInsert(table, values), LAMBDA ran :
        [fn |-> "insert", column |-> table.schema[2], table |-> table,
         values |-> values, out |-> ran.out, after |-> ran.table])

\* Table('t', Schema([Column('c', 'INT'), column])).insert_values([w, v])
InsertRow ==
    /\ call = NoCall
    /\ \E column \in InsertColumns, w \in {None, PyInt(1)}, v \in InsertValues :
         call' = Inserted(Table(NameT, Schema(<<Column(ColC, "INT", TRUE, NoLength).val,
                                                column>>).val).val,
                          <<w, v>>)
    /\ UNCHANGED <<tables, inserted, last>>

\* the next insert_values([w, v]) on the same table
InsertAnother ==
    /\ call.fn = "insert"
    /\ Len(call.after.rows) < MaxInput
    /\ \E w \in {None, PyInt(1)}, v \in InsertValues :
         call' = Inserted(call.after, <<w, v>>)
    /\ UNCHANGED <<tables, inserted, last>>

\* a column is made: Column(name, data_type, nullable, max_length), the
\* parser on 'name data_type' or 'name data_type ( max_length )', or
\* Schema.from_dict on a dictionary of that one column; from the names a
\* and '', the four types and TEXT, and no max_length, -1 or 5
NewColumn ==
    /\ call = NoCall
    /\ \E name \in {ColA, <<>>}, data_type \in ValidTypes \cup {"TEXT"},
          nullable \in BOOLEAN, max_length \in {NoLength, 0 - 1, 5},
          by \in {"Column", "parser", "from_dict"} :
         /\ by = "parser" => nullable
         /\ Let(IF by = "Column"
                THEN Let(Column(name, data_type, nullable, max_length), LAMBDA col :
                         IF col.ok THEN Ok(<<col.val>>) ELSE col)
                ELSE IF by = "parser"
                THEN Let(parse_single_column(name, data_type, max_length), LAMBDA col :
                         IF col.ok THEN Ok(<<col.val>>) ELSE col)
                ELSE from_dict(<<[name |-> name, data_type |-> data_type,
                                  nullable |-> nullable, max_length |-> max_length]>>),
                LAMBDA made :
                call' = [fn |-> "column", by |-> by, name |-> name,
                         data_type |-> data_type, nullable |-> nullable,
                         max_length |-> max_length, out |-> made])
    /\ UNCHANGED <<tables, inserted, last>>

\* the columns schemas are built from: a and B, of each type, nullable or
\* not, with no max_length or with 5
SchemaColumns ==
    {Column(name, data_type, nullable, max_length).val :
        name \in {ColA, ColBUpper}, data_type \in ValidTypes, nullable \in BOOLEAN,
        max_length \in {NoLength, 5}}

\* the valid schemas of one or two of those columns
ValidSchemas ==
    {columns \in UNION {[1..n -> SchemaColumns] : n \in 1..2} : Schema(columns).ok}

\* Schema.from_dict(schema.to_dict())
SchemaRoundTrip ==
    /\ call = NoCall
    /\ \E columns \in ValidSchemas :
         call' = [fn |-> "round_trip", schema |-> Schema(columns).val,
                  data |-> to_dict(Schema(columns).val),
                  out |-> from_dict(to_dict(Schema(columns).val))]
    /\ UNCHANGED <<tables, inserted, last>>

\* nodes with an attribute emptied after construction: table_name, the
\* column definitions, the values or the column list
EmptiedNodes ==
    {[CreateTableNode(NameT, ColumnsA) EXCEPT !.table_name = <<>>],
     [CreateTableNode(NameT, ColumnsA) EXCEPT !.coldefs = <<>>],
     [InsertNode(NameT, <<PyInt(1)>>) EXCEPT !.table_name = <<>>],
     [InsertNode(NameT, <<PyInt(1)>>) EXCEPT !.values = <<>>],
     [SelectNode(NameT, <<ColA>>, <<>>) EXCEPT !.table_name = <<>>],
     [SelectNode(NameT, <<ColA>>, <<>>) EXCEPT !.columns = <<>>]}

\* QueryProcessor.process(node) on such a node
ProcessEmptied ==
    /\ call = NoCall
    /\ \E node \in EmptiedNodes :
         call' = [fn |-> "process_emptied", node |-> node, out |-> process(node)]
    /\ UNCHANGED <<tables, inserted, last>>

\* the caller takes what the call returned or raised
Return ==
    /\ call # NoCall
    /\ call' = NoCall
    /\ UNCHANGED <<tables, inserted, last>>

CallsNext ==
    \/ FilterOnce
    \/ FilterAgain
    \/ Evaluate
    \/ Process
    \/ InsertRow
    \/ InsertAnother
    \/ NewColumn
    \/ SchemaRoundTrip
    \/ ProcessEmptied
    \/ Return

SpecCalls == CallsInit /\ [][CallsNext]_vars

----------------------------------------------------------------------------
(* The storage manager and the execution engine called directly, as their  *)
(* tests call them: the methods of StorageManager, and                     *)
(* ExecutionEngine.execute on plans built by hand.                         *)
(*   tables : StorageManager.tables                                        *)
(*   call   : the call that has just been made: the method, its arguments, *)
(*            the registry it ran against and how it ended                 *)
(***************************************************************************)

\* the names the calls use: t, T, u, and x, which is never created
StorageNames == {NameT, NameTUpper, NameU, NameX}

\* the value lists handed to insert_values: (2, '1'), (2, None), (None, '1'),
\* ('abc'), (2)
StorageValueLists ==
    {<<PyInt(2), PyStr(Text1)>>, <<PyInt(2), None>>, <<None, PyStr(Text1)>>,
     <<PyStr(TextAbc)>>, <<PyInt(2)>>}

\* the operations of the plans built by hand
PlanOperations ==
    {ScanOperation(NameTUpper), ScanOperation(NameX),
     ProjectOperation(Star), ProjectOperation(<<ColB, ColA>>), ProjectOperation(<<>>),
     FilterOperation([column |-> ColA, operator |-> ">", value |-> PyInt(5)]),
     FilterOperation([column |-> ColB, operator |-> "=", value |-> PyStr(Text1)]),
     InsertOperation(NameTUpper, <<PyInt(2), PyStr(Text1)>>),
     InsertOperation(NameTUpper, <<PyInt(2)>>),
     CreateTableOperation(NameU, ColumnsC)}

\* the plans: every plan of at most two operations, and the SELECT plans of
\* three
Plans ==
    UNION {[1..n -> PlanOperations] : n \in 0..2}
    \cup {<<scan, filter, project>> :
             scan \in {op \in PlanOperations : op.kind = "ScanOperation"},
             filter \in {op \in PlanOperations : op.kind = "FilterOperation"},
             project \in {op \in PlanOperations : op.kind = "ProjectOperation"}}

\* the record of a call
Called(fn, name, arg, plan, out) ==
    [fn |-> fn, name |-> name, arg |-> arg, plan |-> plan, before |-> tables,
     out |-> out]

StorageInit ==
    /\ tables = <<>>
    /\ inserted = <<>>
    /\ last = Idle
    /\ call = NoCall

\* storage.create_table(name, Schema(columns))
CreateTableCall ==
    /\ call = NoCall
    /\ \E name \in StorageNames \ {NameX}, columns \in {ColumnsA, ColumnsC} :
         Let(create_table(tables, name, Schema(columns).val), LAMBDA ran :
             /\ tables' = ran.tables
             /\ call' = Called("create_table", name, columns, <<>>, ran.out))
    /\ UNCHANGED <<inserted, last>>

\* storage.drop_table(name)
DropTableCall ==
    /\ call = NoCall
    /\ \E name \in StorageNames :
         Let(drop_table(tables, name), LAMBDA ran :
             /\ tables' = ran.tables
             /\ call' = Called("drop_table", name, <<>>, <<>>, ran.out))
    /\ UNCHANGED <<inserted, last>>

\* storage.clear_table(name)
ClearTableCall ==
    /\ call = NoCall
    /\ \E name \in StorageNames :
         Let(clear_table(tables, name), LAMBDA ran :
             /\ tables' = ran.tables
             /\ call' = Called("clear_table", name, <<>>, <<>>, ran.out))
    /\ UNCHANGED <<inserted, last>>

\* storage.insert_values(name, values)
InsertValuesCall ==
    /\ call = NoCall
    /\ TotalRows(tables, DOMAIN tables) < MaxRows
    /\ \E name \in StorageNames, values \in StorageValueLists :
         Let(insert_values(tables, name, values), LAMBDA ran :
             /\ tables' = ran.tables
             /\ call' = Called("insert_values", name, values, <<>>, ran.out))
    /\ UNCHANGED <<inserted, last>>

\* storage.get_table(name)
GetTableCall ==
    /\ call = NoCall
    /\ \E name \in StorageNames :
         call' = Called("get_table", name, <<>>, <<>>, get_table(tables, name))
    /\ UNCHANGED <<tables, inserted, last>>

\* storage.table_exists(name)
TableExistsCall ==
    /\ call = NoCall
    /\ \E name \in StorageNames :
         call' = Called("table_exists", name, <<>>, <<>>, Ok(table_exists(tables, name)))
    /\ UNCHANGED <<tables, inserted, last>>

\* list(storage.scan_table(name))
ScanTableCall ==
    /\ call = NoCall
    /\ \E name \in StorageNames :
         call' = Called("scan_table", name, <<>>, <<>>, scan_table(tables, name))
    /\ UNCHANGED <<tables, inserted, last>>

\* engine.execute(plan)
ExecutePlan ==
    /\ call = NoCall
    /\ TotalRows(tables, DOMAIN tables) < MaxRows
    /\ \E plan \in Plans :
         Let(execute(plan, tables), LAMBDA ran :
             /\ tables' = ran.tables
             /\ call' = Called("execute", <<>>, <<>>, plan, ran.out))
    /\ UNCHANGED <<inserted, last>>

StorageNext ==
    \/ CreateTableCall
    \/ DropTableCall
    \/ ClearTableCall
    \/ InsertValuesCall
    \/ GetTableCall
    \/ TableExistsCall
    \/ ScanTableCall
    \/ ExecutePlan
    \/ Return

SpecStorage == StorageInit /\ [][StorageNext]_vars

----------------------------------------------------------------------------
(* The Row objects that callers hold.  A Row is an object with a mutable   *)
(* list of values; what a caller holds is either one of the Row objects    *)
(* of Table.rows or an object of its own.                                  *)
(*   tables   : StorageManager.tables, holding table t (a INT NOT NULL,    *)
(*              b VARCHAR(2))                                              *)
(*   inserted : the rows as the INSERTs stored them                        *)
(*   call     : the Row objects the caller holds                           *)
(***************************************************************************)

\* the Row object at position at of the rows of the table registered as key
StoredRow(key, at) == [stored |-> TRUE, key |-> key, at |-> at, values |-> <<>>]
\* a Row object that no table holds
OwnRow(values) == [stored |-> FALSE, key |-> <<>>, at |-> 0, values |-> values]

\* Table.scan / StorageManager.scan_table: yields the objects of self.rows
ScanObjects(tbls, table_name) ==
    [i \in 1..Len(tbls[Lower(table_name)].rows) |-> StoredRow(Lower(table_name), i)]

\* the Row objects in the result of a plan <<scan, project>>:
\* ScanOperation.execute makes a list of the scanned objects, and
\* ProjectOperation.execute returns input_rows itself for '*' and
\* Row(projected_values) for named columns
SelectObjects(plan, tbls) ==
    Let(execute(plan, tbls).out, LAMBDA out :
        IF ~out.ok THEN <<>>
        ELSE IF plan[2].columns = Star /\ out.val.rows # <<>>
             THEN ScanObjects(tbls, plan[1].table_name)
        ELSE [i \in 1..Len(out.val.rows) |-> OwnRow(out.val.rows[i])])

\* row.values of a Row object
ObjectValues(tbls, row) ==
    IF row.stored THEN tbls[row.key].rows[row.at] ELSE row.values

\* the value lists a caller inserts: (1, '1'), (2, None), ('1', 'ab')
RowValueLists ==
    {<<PyInt(1), PyStr(Text1)>>, <<PyInt(2), None>>, <<PyStr(Text1), PyStr(TextAb)>>}

RowsInit ==
    /\ tables = create_table(<<>>, NameT, ColumnsA).tables
    /\ inserted = [k \in {NameT} |-> <<>>]
    /\ last = Idle
    /\ call = NoCall

\* row = Row(values); storage.insert_row('T', row): the caller keeps row
InsertRowObject ==
    /\ call = NoCall
    /\ TotalRows(tables, DOMAIN tables) < MaxRows
    /\ \E values \in RowValueLists :
         Let(TableInsert(tables[NameT], values), LAMBDA ran :
             /\ tables' = [tables EXCEPT ![NameT] = ran.table]
             /\ inserted' = IF ran.out.ok
                             THEN [inserted EXCEPT ![NameT] =
                                     Append(@, convert_row(tables[NameT].schema,
                                                           values).val)]
                             ELSE inserted
             /\ call' = [fn |-> "insert_row", rows |-> <<OwnRow(values)>>,
                         set |-> FALSE])
    /\ UNCHANGED last

\* rows = list(storage.scan_table('T'))
ScanRows ==
    /\ call = NoCall
    /\ call' = [fn |-> "scan", rows |-> ScanObjects(tables, NameTUpper), set |-> FALSE]
    /\ UNCHANGED <<tables, inserted, last>>

\* rows = engine.execute(plan of SELECT * FROM T or SELECT b, a FROM T).rows
SelectRows ==
    /\ call = NoCall
    /\ \E columns \in {Star, <<ColB, ColA>>} :
         call' = [fn |-> IF columns = Star THEN "select_star" ELSE "select_named",
                  rows |-> SelectObjects(<<ScanOperation(NameTUpper),
                                           ProjectOperation(columns)>>, tables),
                  set |-> FALSE]
    /\ UNCHANGED <<inserted, last, tables>>

\* rows[j].set_value(i, value) on a Row the caller holds (i from 1 here)
SetValue ==
    /\ call # NoCall
    /\ ~call.set
    /\ \E j \in 1..Len(call.rows), i \in 1..2, value \in {PyInt(9), None} :
         /\ i <= Len(ObjectValues(tables, call.rows[j]))
         /\ IF call.rows[j].stored
            THEN /\ tables' = [tables EXCEPT
                                 ![call.rows[j].key].rows[call.rows[j].at][i] = value]
                 /\ call' = [call EXCEPT !.set = TRUE]
            ELSE /\ tables' = tables
                 /\ call' = [call EXCEPT !.set = TRUE,
                                         !.rows[j].values[i] = value]
    /\ UNCHANGED <<inserted, last>>

RowsNext ==
    \/ InsertRowObject
    \/ ScanRows
    \/ SelectRows
    \/ SetValue
    \/ Return

SpecRows == RowsInit /\ [][RowsNext]_vars

----------------------------------------------------------------------------
(* The grammar of SQLParser on the tokens of a text.                       *)
(* A text is given as its lexemes, the pieces the token pattern of         *)
(* _tokenize matches one after the other: a word (keyword, identifier,     *)
(* number, operator or punctuation mark) or a single-quoted string, which  *)
(* carries what stands between its quotes as it is written.                *)
(***************************************************************************)

Word(cs) == [quoted |-> FALSE, text |-> cs]
QuotedString(cs) == [quoted |-> TRUE, text |-> cs]

\* content.replace("''", "'")
RECURSIVE Unescape(_)
Unescape(cs) ==
    IF Len(cs) < 2 THEN cs
    ELSE IF cs[1] = 39 /\ cs[2] = 39 THEN <<39>> \o Unescape(SubSeq(cs, 3, Len(cs)))
    ELSE <<Head(cs)>> \o Unescape(Tail(cs))

\* SQLParser._tokenize: a quoted string gives its content with the outer
\* quotes removed and the doubled quotes unescaped, a word gives itself
tokenize(lexemes) ==
    [i \in 1..Len(lexemes) |->
       IF lexemes[i].quoted THEN Unescape(lexemes[i].text) ELSE lexemes[i].text]

TokTABLE == <<84, 65, 66, 76, 69>>
TokINTO == <<73, 78, 84, 79>>
TokVALUES == <<86, 65, 76, 85, 69, 83>>
TokFROM == <<70, 82, 79, 77>>
TokWHERE == <<87, 72, 69, 82, 69>>
TokNULL == <<78, 85, 76, 76>>
TokTRUE == <<84, 82, 85, 69>>
TokFALSE == <<70, 65, 76, 83, 69>>
TokOpen == <<40>>         \* (
TokClose == <<41>>        \* )
TokComma == <<44>>        \* ,
TokSemicolon == <<59>>    \* ;

\* the spelling of the data types and of the comparison operators
TypeTexts ==
    [t \in ValidTypes |->
       CASE t = "INT" -> <<73, 78, 84>>
         [] t = "VARCHAR" -> <<86, 65, 82, 67, 72, 65, 82>>
         [] t = "FLOAT" -> <<70, 76, 79, 65, 84>>
         [] t = "BOOLEAN" -> <<66, 79, 79, 76, 69, 65, 78>>]
OperatorTexts ==
    [o \in VALID_OPERATORS |->
       CASE o = "=" -> <<61>>
         [] o = ">" -> <<62>>
         [] o = "<" -> <<60>>
         [] o = ">=" -> <<62, 61>>
         [] o = "<=" -> <<60, 61>>
         [] o = "!=" -> <<33, 61>>
         [] o = "<>" -> <<60, 62>>]
\* the data type or operator a token spells, "" if it spells none
Spelled(texts, token) ==
    IF \E k \in DOMAIN texts : texts[k] = token
    THEN CHOOSE k \in DOMAIN texts : texts[k] = token
    ELSE ""

\* the loop that finds the closing parenthesis: its index, 0 if none
RECURSIVE ParenEnd(_, _, _)
ParenEnd(tokens, i, paren_count) ==
    IF i > Len(tokens) THEN 0
    ELSE IF tokens[i] = TokOpen THEN ParenEnd(tokens, i + 1, paren_count + 1)
    ELSE IF tokens[i] = TokClose
         THEN IF paren_count - 1 = 0 THEN i
              ELSE ParenEnd(tokens, i + 1, paren_count - 1)
    ELSE ParenEnd(tokens, i + 1, paren_count)

\* the loop that collects the tokens between commas: the groups in order,
\* current being the group collected so far
RECURSIVE CommaGroups(_, _)
CommaGroups(tokens, current) ==
    IF tokens = <<>> THEN <<current>>
    ELSE IF Head(tokens) = TokComma
         THEN <<current>> \o CommaGroups(Tail(tokens), <<>>)
    ELSE CommaGroups(Tail(tokens), Append(current, Head(tokens)))

\* ''.join(tokens)
RECURSIVE Concat(_)
Concat(tokens) == IF tokens = <<>> THEN <<>> ELSE Head(tokens) \o Concat(Tail(tokens))

\* SQLParser._parse_single_value.  (The range tests of the numbers are
\* beyond every numeral of the model.)
parse_single_value(tokens) ==
    IF Len(tokens) # 1 THEN Raise("ParseError")
    ELSE IF Upper(tokens[1]) = TokNULL THEN Ok(None)
    ELSE IF Upper(tokens[1]) \in {TokTRUE, TokFALSE}
         THEN Ok(PyBool(Upper(tokens[1]) = TokTRUE))
    ELSE IF DotIndex(tokens[1], 1) # 0
         THEN IF FloatParses(tokens[1]) THEN Ok(PyFloat(FloatOfStr(tokens[1])))
              ELSE Ok(PyStr(tokens[1]))
    ELSE IF IntParses(tokens[1]) THEN Ok(PyInt(IntOfStr(tokens[1])))
    ELSE Ok(PyStr(tokens[1]))

\* SQLParser._parse_values
parse_values(tokens) ==
    IF tokens = <<>> THEN Raise("ParseError")
    ELSE Let(CommaGroups(tokens, <<>>), LAMBDA groups :
         IF \E i \in 1..Len(groups) : groups[i] = <<>> THEN Raise("ParseError")
         ELSE IF \E i \in 1..Len(groups) : ~parse_single_value(groups[i]).ok
              THEN Raise("ParseError")
         ELSE Ok([i \in 1..Len(groups) |-> parse_single_value(groups[i]).val]))

\* SQLParser._parse_single_column on the tokens of one column definition
parse_column_tokens(tokens) ==
    IF Len(tokens) < 2 THEN Raise("ParseError")
    ELSE Let(Spelled(TypeTexts, Upper(tokens[2])), LAMBDA data_type :
         IF data_type = "VARCHAR" /\ Len(tokens) > 2
         THEN IF ~(Len(tokens) >= 5 /\ tokens[3] = TokOpen /\ tokens[5] = TokClose)
              THEN Raise("ParseError")
              ELSE IF ~IntParses(tokens[4]) THEN Raise("ParseError")
              ELSE IF IntOfStr(tokens[4]) <= 0 THEN Raise("ParseError")
              ELSE parse_single_column(tokens[1], data_type, IntOfStr(tokens[4]))
         ELSE parse_single_column(tokens[1], data_type, NoLength))

\* SQLParser._parse_column_definitions
parse_column_definitions(tokens) ==
    IF tokens = <<>> THEN Raise("ParseError")
    ELSE Let(CommaGroups(tokens, <<>>), LAMBDA groups :
         IF \E i \in 1..Len(groups) : groups[i] = <<>> THEN Raise("ParseError")
         ELSE IF \E i \in 1..Len(groups) : ~parse_column_tokens(groups[i]).ok
              THEN Raise("ParseError")
         ELSE Let([i \in 1..Len(groups) |-> parse_column_tokens(groups[i]).val],
                  LAMBDA columns :
                  IF Len(columns)
                       # Cardinality({LowerNames(columns)[i] : i \in 1..Len(columns)})
                  THEN Raise("ParseError")
                  ELSE Ok(columns)))

\* SQLParser._parse_create_table (tokens counted from 1)
parse_create_table(tokens) ==
    IF Len(tokens) < 4 THEN Raise("ParseError")
    ELSE IF Upper(tokens[2]) # TokTABLE THEN Raise("ParseError")
    ELSE IF ~ValidName(tokens[3]) THEN Raise("ParseError")
    ELSE IF Len(tokens) < 5 \/ tokens[4] # TokOpen THEN Raise("ParseError")
    ELSE Let(ParenEnd(tokens, 4, 0), LAMBDA paren_end :
         IF paren_end = 0 THEN Raise("ParseError")
         ELSE Let(parse_column_definitions(SubSeq(tokens, 5, paren_end - 1)),
                  LAMBDA columns :
                  IF ~columns.ok THEN columns
                  ELSE Ok(CreateTableNode(tokens[3], columns.val))))

\* SQLParser._parse_insert
parse_insert(tokens) ==
    IF Len(tokens) < 6 THEN Raise("ParseError")
    ELSE IF Upper(tokens[2]) # TokINTO THEN Raise("ParseError")
    ELSE IF ~ValidName(tokens[3]) THEN Raise("ParseError")
    ELSE IF Upper(tokens[4]) # TokVALUES THEN Raise("ParseError")
    ELSE IF tokens[5] # TokOpen THEN Raise("ParseError")
    ELSE Let(ParenEnd(tokens, 5, 0), LAMBDA paren_end :
         IF paren_end = 0 THEN Raise("ParseError")
         ELSE Let(parse_values(SubSeq(tokens, 6, paren_end - 1)), LAMBDA values :
                  IF ~values.ok THEN values
                  ELSE Ok(InsertNode(tokens[3], values.val))))

\* SQLParser._parse_select_columns
parse_select_columns(tokens) ==
    IF tokens = <<>> THEN Raise("ParseError")
    ELSE IF tokens = Star THEN Ok(Star)
    ELSE Let(CommaGroups(tokens, <<>>), LAMBDA groups :
         IF \E i \in 1..Len(groups) : groups[i] = <<>> THEN Raise("ParseError")
         ELSE Let([i \in 1..Len(groups) |-> Concat(groups[i])], LAMBDA columns :
                  IF \E i \in 1..Len(columns) : ~ValidName(columns[i])
                  THEN Raise("ParseError")
                  ELSE IF Len(columns)
                            # Cardinality({Lower(columns[i]) : i \in 1..Len(columns)})
                  THEN Raise("ParseError")
                  ELSE Ok(columns)))

\* SQLParser._parse_where_clause
parse_where_clause(tokens) ==
    IF Len(tokens) < 3 THEN Raise("ParseError")
    ELSE IF ~ValidName(tokens[1]) THEN Raise("ParseError")
    ELSE IF Spelled(OperatorTexts, tokens[2]) = "" THEN Raise("ParseError")
    ELSE IF Len(tokens) > 3 THEN Raise("ParseError")
    ELSE Ok([column |-> tokens[1],
             operator |-> Spelled(OperatorTexts, tokens[2]),
             value |-> parse_single_value(<<tokens[3]>>).val])

\* the first index from i on whose token is keyword in any case, 0 if none
RECURSIVE KeywordIndex(_, _, _)
KeywordIndex(tokens, keyword, i) ==
    IF i > Len(tokens) THEN 0
    ELSE IF Upper(tokens[i]) = keyword THEN i
    ELSE KeywordIndex(tokens, keyword, i + 1)

\* SQLParser._parse_select
parse_select(tokens) ==
    IF Len(tokens) < 4 THEN Raise("ParseError")
    ELSE Let(KeywordIndex(tokens, TokFROM, 1), LAMBDA from_index :
         IF from_index = 0 \/ from_index = 2 THEN Raise("ParseError")
         ELSE Let(parse_select_columns(SubSeq(tokens, 2, from_index - 1)),
                  LAMBDA columns :
         IF ~columns.ok THEN columns
         ELSE IF from_index + 1 > Len(tokens) THEN Raise("ParseError")
         ELSE IF ~ValidName(tokens[from_index + 1]) THEN Raise("ParseError")
         ELSE Let(KeywordIndex(tokens, TokWHERE, from_index + 2), LAMBDA where_index :
              IF where_index = 0
              THEN Ok(SelectNode(tokens[from_index + 1], columns.val, <<>>))
              ELSE IF where_index + 1 > Len(tokens) THEN Raise("ParseError")
              ELSE Let(parse_where_clause(SubSeq(tokens, where_index + 1, Len(tokens))),
                       LAMBDA where_clause :
                       IF ~where_clause.ok THEN where_clause
                       ELSE Ok(SelectNode(tokens[from_index + 1], columns.val,
                                          <<where_clause.val>>))))))

\* SQLParser.parse of the text with these lexemes
parse_text(lexemes) ==
    Let(tokenize(lexemes), LAMBDA tokens :
        IF tokens = <<>> THEN Raise("ParseError")
        ELSE IF Upper(tokens[1]) = KwCREATE THEN parse_create_table(tokens)
        ELSE IF Upper(tokens[1]) = KwINSERT THEN parse_insert(tokens)
        ELSE IF Upper(tokens[1]) = KwSELECT THEN parse_select(tokens)
        ELSE Raise("ParseError"))

----------------------------------------------------------------------------
(* SQLParser.parse called on texts, and INSERT statements with a quoted    *)
(* literal run by SQLEngine.execute_sql.                                   *)
(*   tables   : StorageManager.tables, holding table u (c VARCHAR)         *)
(*   inserted : the rows as the INSERTs stored them                        *)
(*   call     : the text parsed and what parse gave for it, or the         *)
(*              literal inserted and how execute_sql ended                 *)
(***************************************************************************)

Words(tokens) == [i \in 1..Len(tokens) |-> Word(tokens[i])]

Text007 == <<48, 48, 55>>          \* 007
Text1p5 == <<49, 46, 53>>          \* 1.5
TextNullLower == <<110, 117, 108, 108>>   \* null
TextTrueMixed == <<84, 114, 117, 101>>    \* True
TextIts == <<105, 116, 39, 115>>   \* it's

\* the text of a quoted literal with this content: every quote doubled
RECURSIVE Escape(_)
Escape(cs) ==
    IF cs = <<>> THEN <<>>
    ELSE IF Head(cs) = 39 THEN <<39, 39>> \o Escape(Tail(cs))
    ELSE <<Head(cs)>> \o Escape(Tail(cs))

\* the literals of the texts: 2, 1.5, NULL, true, 'abc', 'it''s'
LiteralLexemes ==
    {Word(<<50>>), Word(Text1p5), Word(TokNULL), Word(Lower(TokTRUE)),
     QuotedString(TextAbc), QuotedString(Escape(TextIts))}

\* column definitions between the parentheses of CREATE TABLE: a INT;
\* a int, b VARCHAR(2); b varchar; a FLOAT,, b INT; b INT, B INT;
\* a BOOLEAN,
ColumnTexts ==
    {Words(<<ColA, TypeTexts["INT"]>>),
     Words(<<ColA, Lower(TypeTexts["INT"]), TokComma,
             ColB, TypeTexts["VARCHAR"], TokOpen, <<50>>, TokClose>>),
     Words(<<ColB, Lower(TypeTexts["VARCHAR"])>>),
     Words(<<ColA, TypeTexts["FLOAT"], TokComma, TokComma, ColB, TypeTexts["INT"]>>),
     Words(<<ColB, TypeTexts["INT"], TokComma, ColBUpper, TypeTexts["INT"]>>),
     Words(<<ColA, TypeTexts["BOOLEAN"], TokComma>>)}

CreateTexts ==
    {Words(<<kw, TokTABLE, NameT, TokOpen>>) \o cols \o Words(<<TokClose>>) :
       kw \in {KwCREATE, KwCreateLower}, cols \in ColumnTexts}
    \cup {Words(<<KwCREATE, TokTABLE, NameT, TokOpen>>) \o cols : cols \in ColumnTexts}

InsertTexts ==
    {Words(<<KwINSERT, TokINTO, NameT, TokVALUES, TokOpen>>) \o vs \o Words(<<TokClose>>) :
       vs \in {<<v>> : v \in LiteralLexemes}
              \cup {<<v, Word(TokComma), w>> : v \in LiteralLexemes, w \in LiteralLexemes}
              \cup {<<>>, <<QuotedString(TokComma)>>}}

\* SELECT column lists: *; a; b, a; a a
SelectColumnTexts ==
    {Words(Star), Words(<<ColA>>), Words(<<ColB, TokComma, ColA>>), Words(<<ColA, ColA>>)}

\* conditions after WHERE: column, operator, literal; and one of two
\* conditions
WhereTexts ==
    {Words(<<ColA, OperatorTexts[o]>>) \o <<v>> :
       o \in {"=", "<>", ">="}, v \in LiteralLexemes}
    \cup {Words(<<ColA, <<61>>, <<50>>, <<65, 78, 68>>, ColB, <<61>>, <<50>>>>), <<>>}

SelectTexts ==
    {Words(<<KwSELECT>>) \o cols \o Words(<<TokFROM, NameT>>) :
       cols \in SelectColumnTexts}
    \cup {Words(<<KwSELECT>>) \o cols \o Words(<<Lower(TokFROM), NameT, TokWHERE>>) \o w :
            cols \in SelectColumnTexts, w \in WhereTexts}

\* the contents of the quoted literals inserted: 1, abc, 007, 1.5, null,
\* True, it's and a comma
LiteralContents ==
    {Text1, TextAbc, Text007, Text1p5, TextNullLower, TextTrueMixed, TextIts, TokComma}

ParserInit ==
    /\ tables = create_table(<<>>, NameU, ColumnsC).tables
    /\ inserted = [k \in {NameU} |-> <<>>]
    /\ last = Idle
    /\ call = NoCall

\* parser.parse(text) and parser.parse(text + ';')
ParseText ==
    /\ call = NoCall
    /\ \E lexemes \in CreateTexts \cup InsertTexts \cup SelectTexts :
         call' = [fn |-> "parse", lexemes |-> lexemes,
                  out |-> parse_text(lexemes),
                  semicolon |-> parse_text(Append(lexemes, Word(TokSemicolon)))]
    /\ UNCHANGED <<tables, inserted, last>>

\* engine.execute_sql("INSERT INTO u VALUES ('...')") for a quoted literal
\* with the content given
InsertLiteral ==
    /\ call = NoCall
    /\ TotalRows(tables, DOMAIN tables) < MaxRows
    /\ \E content \in LiteralContents :
         Let(parse_text(Words(<<KwINSERT, TokINTO, NameU, TokVALUES, TokOpen>>)
                        \o <<QuotedString(Escape(content))>> \o Words(<<TokClose>>)),
             LAMBDA ast :
         Let(IF ast.ok THEN [command |-> KwINSERT, node |-> ast.val]
             ELSE [command |-> KwINSERT, node |-> NoNode], LAMBDA sql :
         Let(execute_sql(sql, tables), LAMBDA ran :
             /\ tables' = ran.tables
             /\ inserted' = History(inserted, tables, sql, ran.out)
             /\ call' = [fn |-> "insert_literal", content |-> content,
                         parsed |-> ast, out |-> ran.out])))
    /\ UNCHANGED last

ParserNext ==
    \/ ParseText
    \/ InsertLiteral
    \/ Return

SpecParser == ParserInit /\ [][ParserNext]_vars

----------------------------------------------------------------------------
(* SQLShell: the command loop of the shell over the engine.                *)
(* A command is its text; a text that is a statement carries as sql the    *)
(* statement [command, node] the parser reads from it, and as text its     *)
(* first token.                                                            *)
(*   tables   : shell.engine.storage_manager.tables                        *)
(*   inserted : the rows as the INSERTs stored them                        *)
(*   call     : shell.running, and the command the loop has just           *)
(*              processed: what execute_sql gave for it (engine) and what  *)
(*              process_command returned or raised (out)                   *)
(***************************************************************************)

\* the exception classes bound in cli.py
ShellImports == {"SQLEngineError"}

\* the except clauses of process_command in order: the class named and the
\* label of the string returned
ShellHandlers ==
    <<[class |-> "ParseError", label |-> "Parse Error: "],
      [class |-> "ValidationError", label |-> "Validation Error: "],
      [class |-> "TableNotFoundError", label |-> "Table Error: "],
      [class |-> "ColumnNotFoundError", label |-> "Column Error: "],
      [class |-> "StorageError", label |-> "Storage Error: "],
      [class |-> "ProcessingError", label |-> "Processing Error: "],
      [class |-> "ExecutionError", label |-> "Execution Error: "],
      [class |-> "SQLEngineError", label |-> "SQL Error: "]>>

\* isinstance(e, class) for an exception of class kind
IsInstanceOfClass(kind, class) ==
    kind = class \/ (class = "SQLEngineError" /\ kind \in SQLEngineErrors)

\* the except clauses tried from the i-th on for the exception of outcome
\* o, in a module whose namespace binds the classes imports: a clause
\* naming a class that is not bound raises NameError when it is reached
RECURSIVE HandleInShell(_, _, _)
HandleInShell(o, imports, i) ==
    IF i > Len(ShellHandlers) THEN Ok(<<Lit("Unexpected error: ")>> \o o.msg)
    ELSE IF ShellHandlers[i].class \notin imports THEN Wrap("NameError", o)
    ELSE IF IsInstanceOfClass(o.err, ShellHandlers[i].class)
         THEN Ok(<<Lit(ShellHandlers[i].label)>> \o o.msg)
    ELSE HandleInShell(o, imports, i + 1)

TextExit == <<101, 120, 105, 116>>           \* exit
TextQuitUpper == <<81, 85, 73, 84, 59>>      \* QUIT;
TextHelp == <<104, 101, 108, 112>>           \* help
TextShowTables == <<115, 104, 111, 119, 32, 116, 97, 98, 108, 101, 115>>  \* show tables
TextBlank == <<32, 32>>

\* SQLShell._show_tables
show_tables(tbls) ==
    IF DOMAIN tbls = {} THEN Ok(<<Lit("No tables found.")>>)
    ELSE Ok(<<Lit("Tables:"), Joined({tbls[k].name : k \in DOMAIN tbls})>>)

\* SQLShell.process_command: [out, tables, running, engine], engine being
\* what execute_sql gave (Ok(<<>>) for a command that is no statement).
\* The string returned is the sequence of its parts; that of a result is
\* the result it formats.
process_command(command, tbls, running) ==
    IF IsBlank(command.text)
    THEN [out |-> Ok(<<>>), tables |-> tbls, running |-> running, engine |-> Ok(<<>>)]
    ELSE IF Lower(command.text) \in {TextExit, TextExit \o <<59>>,
                                     Lower(TextQuitUpper),
                                     SubSeq(Lower(TextQuitUpper), 1, 4)}
    THEN [out |-> Ok(<<Lit("Goodbye!")>>), tables |-> tbls, running |-> FALSE,
          engine |-> Ok(<<>>)]
    ELSE IF Lower(command.text) \in {TextHelp, TextHelp \o <<59>>}
    THEN [out |-> Ok(<<Lit("Available Commands:")>>), tables |-> tbls,
          running |-> running, engine |-> Ok(<<>>)]
    ELSE IF Lower(command.text) \in {TextShowTables, TextShowTables \o <<59>>}
    THEN [out |-> show_tables(tbls), tables |-> tbls, running |-> running,
          engine |-> Ok(<<>>)]
    ELSE Let(execute_sql(command.sql, tbls), LAMBDA ran :
             [out |-> IF ran.out.ok THEN Ok(<<ran.out.val>>)
                      ELSE HandleInShell(ran.out, ShellImports, 1),
              tables |-> ran.tables, running |-> running, engine |-> ran.out])

\* the commands typed: exit, QUIT;, help, show tables, a blank line, and
\* statements: the CREATE TABLEs, the INSERTs of one value and the SELECTs
\* without WHERE of the statement model, and a DELETE
ShellCommands ==
    {[text |-> t, sql |-> [command |-> <<>>, node |-> NoNode]] :
       t \in {TextExit, TextQuitUpper, TextHelp, TextShowTables, TextBlank}}
    \cup {[text |-> KwCreateLower, sql |-> [command |-> KwCreateLower, node |-> n]] :
            n \in CreateNodes}
    \cup {[text |-> KwINSERT, sql |-> [command |-> KwINSERT, node |-> n]] :
            n \in {x \in InsertNodes : Len(x.values) = 1}}
    \cup {[text |-> KwSELECT, sql |-> [command |-> KwSELECT, node |-> n]] :
            n \in {x \in SelectNodes : x.where_clause = <<>>}}
    \cup {[text |-> KwDELETE, sql |-> [command |-> KwDELETE, node |-> NoNode]]}

\* the shell before start() and after the loop has ended
Stopped == [fn |-> "shell", running |-> FALSE, processed |-> FALSE]

ShellInit ==
    /\ tables = <<>>
    /\ inserted = <<>>
    /\ last = Idle
    /\ call = Stopped

\* SQLShell.start up to the first prompt of the loop
StartShell ==
    /\ call.fn = "shell"
    /\ ~call.running
    /\ call' = [fn |-> "shell", running |-> TRUE, processed |-> FALSE]
    /\ UNCHANGED <<tables, inserted, last>>

\* one turn of SQLShell._command_loop on the command typed: process_command
\* and the test of self.running; an exception leaving process_command
\* leaves the loop, and start() prints it and sets self.running = False
CommandTurn ==
    /\ call.fn = "shell"
    /\ call.running
    /\ \E command \in ShellCommands :
         /\ command.sql.node.kind = "InsertNode"
              => TotalRows(tables, DOMAIN tables) < MaxRows
         /\ Let(process_command(command, tables, call.running), LAMBDA ran :
                /\ tables' = ran.tables
                /\ inserted' = IF ran.engine.ok /\ command.sql.node.kind # "None"
                                THEN History(inserted, tables, command.sql, ran.engine)
                                ELSE inserted
                /\ call' = [fn |-> "shell", running |-> ran.out.ok /\ ran.running,
                            processed |-> TRUE, command |-> command,
                            engine |-> ran.engine, out |-> ran.out])
    /\ UNCHANGED last

\* input() raises EOFError: the loop prints Goodbye and ends
EndOfInput ==
    /\ call.fn = "shell"
    /\ call.running
    /\ call' = Stopped
    /\ UNCHANGED <<tables, inserted, last>>

ShellNext ==
    \/ StartShell
    \/ CommandTurn
    \/ EndOfInput

SpecShell == ShellInit /\ [][ShellNext]_vars

----------------------------------------------------------------------------
(* Tables saved to CSV and loaded into a fresh StorageManager.             *)
(* A CSV file is the sequence of its records, each the sequence of its     *)
(* fields as texts: what csv.writer writes and csv.reader reads back       *)
(* (quoting included, a record of one empty field being written as "").    *)
(*   tables   : StorageManager.tables of the manager that saves            *)
(*   call     : the table saved, the files written, and what the load      *)
(*              into the fresh manager gave                                *)
(***************************************************************************)

\* the field csv.writer writes for a value: '' for None, str(value) otherwise
CsvField(v) == IF IsNone(v) THEN <<>> ELSE ToStr(v)

\* StorageManager.save_table_to_csv with a data directory configured: the
\* files written, [header, records, schema_data]
save_table_to_csv(tbls, table_name) ==
    Let(get_table(tbls, table_name), LAMBDA table :
        IF ~table.ok THEN table
        ELSE Ok([header |-> get_column_names(table.val.schema),
                 records |-> [i \in 1..Len(table.val.rows) |->
                                [j \in 1..Len(table.val.rows[i]) |->
                                   CsvField(table.val.rows[i][j])]],
                 schema_data |-> to_dict(table.val.schema)]))

\* the loop of load_table_from_csv over the records read: every record
\* that is not empty goes to insert_values as a list of str, up to the
\* first that raises
RECURSIVE LoadRecords(_, _, _)
LoadRecords(tbls, table_name, records) ==
    IF records = <<>> THEN [out |-> Ok(<<>>), tables |-> tbls]
    ELSE IF Head(records) = <<>> THEN LoadRecords(tbls, table_name, Tail(records))
    ELSE Let(insert_values(tbls, table_name,
                           [j \in 1..Len(Head(records)) |-> PyStr(Head(records)[j])]),
             LAMBDA ran :
             IF ~ran.out.ok THEN ran
             ELSE LoadRecords(ran.tables, table_name, Tail(records)))

\* StorageManager.load_table_from_csv of the files written, the table name
\* being the stem of the file name: [out, tables]
load_table_from_csv(tbls, files, table_name) ==
    Let(from_dict(files.schema_data), LAMBDA schema :
        IF ~schema.ok THEN [out |-> schema, tables |-> tbls]
        ELSE Let(create_table(tbls, table_name, schema.val), LAMBDA created :
                 IF ~created.out.ok THEN created
                 ELSE LoadRecords(created.tables, table_name, files.records)))

CsvInit ==
    /\ tables = <<>>
    /\ inserted = <<>>
    /\ last = Idle
    /\ call = NoCall

\* storage.create_table(name, Schema(columns)) for (a INT NOT NULL,
\* b VARCHAR(2)), (a FLOAT, B BOOLEAN NOT NULL) and (c VARCHAR)
CsvCreateTable ==
    /\ call = NoCall
    /\ \E name \in {NameTUpper, NameU}, columns \in {ColumnsA, ColumnsB, ColumnsC} :
         Let(create_table(tables, name, Schema(columns).val), LAMBDA ran :
             /\ tables' = ran.tables
             /\ call' = Called("create_table", name, columns, <<>>, ran.out))
    /\ UNCHANGED <<inserted, last>>

\* storage.insert_values(name, values)
CsvInsertValues ==
    /\ call = NoCall
    /\ TotalRows(tables, DOMAIN tables) < MaxRows
    /\ \E name \in {NameTUpper, NameU}, values \in ValueLists :
         Let(insert_values(tables, name, values), LAMBDA ran :
             /\ tables' = ran.tables
             /\ call' = Called("insert_values", name, values, <<>>, ran.out))
    /\ UNCHANGED <<inserted, last>>

\* storage.save_table_to_csv(name); fresh = StorageManager(data_directory);
\* fresh.load_table_from_csv(name.lower() + '.csv')
SaveAndLoad ==
    /\ call = NoCall
    /\ \E name \in {NameTUpper, NameU} :
         Let(save_table_to_csv(tables, name), LAMBDA saved :
             call' = [fn |-> "save_load", name |-> name, saved |-> saved,
                      loaded |-> IF saved.ok
                                 THEN load_table_from_csv(<<>>, saved.val, Lower(name))
                                 ELSE [out |-> saved, tables |-> <<>>]])
    /\ UNCHANGED <<tables, inserted, last>>

CsvNext ==
    \/ CsvCreateTable
    \/ CsvInsertValues
    \/ SaveAndLoad
    \/ Return

SpecCsv == CsvInit /\ [][CsvNext]_vars

----------------------------------------------------------------------------
(* Properties of the statements (specification Spec) *)

LastNode == last.sql.node
LastKey == Lower(last.sql.node.table_name)
\* the outcome of ExecutionEngine.execute in the last statement
LastExec == last.exec[1]

\* C1: scanning a table returns exactly one row per INSERT that succeeded,
\* in the order the INSERTs succeeded, each row holding the inserted values
\* as Column.convert_value converts them; an INSERT that failed adds no row.
InsertThenScanFifo ==
    /\ DOMAIN inserted = DOMAIN tables
    /\ \A k \in DOMAIN tables :
         /\ TableScan(tables[k]) = inserted[k]
         /\ tables[k].row_count = Len(inserted[k])

\* a second, different row has just been inserted behind the first, and a
\* conversion changed one of its values
InsertThenScanFifoWitness ==
    /\ last.done /\ last.out.ok /\ LastNode.kind = "InsertNode"
    /\ Len(tables[LastKey].rows) = 2
    /\ tables[LastKey].rows[1] # tables[LastKey].rows[2]
    /\ tables[LastKey].rows[2] # LastNode.values

\* C2: a statement that fails leaves the storage registry as it was before
\* the statement: the same tables, schemas and rows in the same order.
FailedStatementKeepsStorage ==
    (last.done /\ ~last.out.ok) => tables = last.before

\* an INSERT of the right arity has just failed on a value that does not
\* convert, against a table that already holds a row
FailedStatementKeepsStorageWitness ==
    /\ last.done /\ ~last.out.ok /\ LastNode.kind = "InsertNode"
    /\ LastKey \in DOMAIN last.before
    /\ Len(LastNode.values) = Len(last.before[LastKey].schema)
    /\ Len(last.before[LastKey].rows) = 1
    /\ last.out.cause = "ValidationError"

\* the value v is Null in a nullable column, or of the kind of the column
WellTyped(col, v) ==
    IF v.t = "null" THEN col.nullable
    ELSE IF col.data_type = "INT" THEN v.t = "int"
    ELSE IF col.data_type = "FLOAT" THEN v.t = "float"
    ELSE IF col.data_type = "BOOLEAN" THEN v.t = "bool"
    ELSE v.t = "str" /\ Len(v.s) <= col.max_length

\* C3: every stored row has as many values as its table's schema has
\* columns, and each value is Null (in a nullable column only) or of its
\* column's kind: Integer for INT, Float for FLOAT, Boolean for BOOLEAN,
\* Text of at most max_length characters for VARCHAR.
StoredRowsWellTyped ==
    \A k \in DOMAIN tables :
      \A i \in 1..Len(tables[k].rows) :
        /\ Len(tables[k].rows[i]) = Len(tables[k].schema)
        /\ \A j \in 1..Len(tables[k].schema) :
             WellTyped(tables[k].schema[j], tables[k].rows[i][j])

\* an INSERT of an Integer into a FLOAT column and of a Text into a BOOLEAN
\* column that cannot be Null has just stored a row
StoredRowsWellTypedWitness ==
    /\ last.done /\ last.out.ok /\ LastNode.kind = "InsertNode"
    /\ tables[LastKey].schema = ColumnsB
    /\ LastNode.values[1].t = "int"
    /\ LastNode.values[2].t = "str"

DomainErrors == {"StorageError", "ValidationError", "TableNotFoundError",
                 "ColumnNotFoundError"}

\* C4: ExecutionEngine.execute lets a StorageError, ValidationError,
\* TableNotFoundError or ColumnNotFoundError that an operation raised reach
\* its caller as that same kind, and turns only a failure of another kind
\* into ExecutionError.
DomainErrorsPassThrough ==
    (last.done /\ last.exec # <<>> /\ ~LastExec.ok) =>
        IF LastExec.cause \in DomainErrors
        THEN LastExec.err = LastExec.cause
        ELSE LastExec.err = "ExecutionError"

\* row r satisfies the (optional) WHERE clause of a SELECT over schema
Satisfies(schema, where_clause, r) ==
    \/ where_clause = <<>>
    \/ evaluate(where_clause[1],
                r[get_column_index(schema, where_clause[1].column).val]).val

\* the rows of a table that satisfy the WHERE clause, in the table's order
Matching(table, where_clause) ==
    LET Keep(r) == Satisfies(table.schema, where_clause, r)
    IN  SelectSeq(table.rows, Keep)

\* the SELECT that has just run names an existing table, and its WHERE
\* clause, if any, an existing column
SelectResolves ==
    /\ last.done /\ LastNode.kind = "SelectNode"
    /\ LastKey \in DOMAIN last.before
    /\ \/ LastNode.where_clause = <<>>
       \/ get_column_index(last.before[LastKey].schema,
                           LastNode.where_clause[1].column).ok

\* C5: a SELECT of named columns returns a data result whose column list
\* is the requested list and whose rows are, in insertion order, one row
\* per row of the table that satisfies the predicate (every row without a
\* WHERE clause), each holding the values of the requested columns in the
\* requested order; the WHERE column need not be among them.
SelectNamedColumns ==
    (/\ SelectResolves
     /\ LastNode.columns # Star
     /\ \A c \in 1..Len(LastNode.columns) :
          get_column_index(last.before[LastKey].schema, LastNode.columns[c]).ok)
    => LET table == last.before[LastKey]
           kept == Matching(table, LastNode.where_clause)
       IN  /\ LastExec.ok
           /\ is_data_result(LastExec.val)
           /\ ~is_message_result(LastExec.val)
           /\ LastExec.val.columns = LastNode.columns
           /\ Len(LastExec.val.rows) = Len(kept)
           /\ \A i \in 1..Len(kept) :
                /\ Len(LastExec.val.rows[i]) = Len(LastNode.columns)
                /\ \A c \in 1..Len(LastNode.columns) :
                     LastExec.val.rows[i][c] =
                       kept[i][get_column_index(table.schema, LastNode.columns[c]).val]

\* SELECT b, a ... WHERE a > 1.5 over two rows has just kept the second
\* row only, in the order b, a
SelectNamedColumnsWitness ==
    /\ SelectResolves
    /\ LastNode.columns = <<ColB, ColA>>
    /\ LastNode.where_clause # <<>>
    /\ Len(last.before[LastKey].rows) = 2
    /\ LastExec.ok
    /\ Len(LastExec.val.rows) = 1
    /\ LastExec.val.rows[1] = <<last.before[LastKey].rows[2][2],
                                last.before[LastKey].rows[2][1]>>
    /\ LastExec.val.rows[1][1] # LastExec.val.rows[1][2]

\* C7: SELECT * returns the rows it is given unchanged, in the same order,
\* each with as many values as the table has columns, and its column list
\* is the table's column names in schema order.
SelectStarIdentity ==
    (SelectResolves /\ LastNode.columns = Star)
    => LET table == last.before[LastKey]
       IN  /\ LastExec.ok
           /\ LastExec.val.columns = [j \in 1..Len(table.schema) |-> table.schema[j].name]
           /\ LastExec.val.rows = Matching(table, LastNode.where_clause)
           /\ \A i \in 1..Len(LastExec.val.rows) :
                Len(LastExec.val.rows[i]) = Len(table.schema)

\* SELECT * without WHERE has just returned the two different rows of a
\* table that has a column with an upper-case name
SelectStarIdentityWitness ==
    /\ SelectResolves /\ LastNode.columns = Star /\ LastNode.where_clause = <<>>
    /\ last.before[LastKey].schema = ColumnsB
    /\ LastExec.ok
    /\ Len(LastExec.val.rows) = 2
    /\ LastExec.val.rows[1] # LastExec.val.rows[2]

\* the columns that a SELECT names (in its column list, unless it is *, and
\* in its WHERE clause) and that the schema does not have
MissingColumns(node, schema) ==
    {c \in (IF node.columns = Star THEN {}
            ELSE {node.columns[i] : i \in 1..Len(node.columns)})
           \cup {node.where_clause[i].column : i \in 1..Len(node.where_clause)} :
       \A j \in 1..Len(schema) : Lower(schema[j].name) # Lower(c)}

\* some part of the message is the text cs
MessageNames(msg, cs) == \E i \in 1..Len(msg) : msg[i] = Txt(cs)

\* C11: a SELECT that names, in its column list or in its WHERE clause, a
\* column that the table's schema does not have ends in a ColumnNotFoundError
\* whose message names such a column, whatever rows the table holds.
SelectMissingColumnFails ==
    (/\ last.done /\ LastNode.kind = "SelectNode"
     /\ LastKey \in DOMAIN last.before
     /\ MissingColumns(LastNode, last.before[LastKey].schema) # {})
    => /\ last.exec # <<>>
       /\ ~LastExec.ok
       /\ LastExec.cause = "ColumnNotFoundError"
       /\ \E c \in MissingColumns(LastNode, last.before[LastKey].schema) :
            MessageNames(LastExec.msg, c)

\* k values have been handed to an INSERT into a table of n columns, k # n
WrongArityInsert ==
    /\ last.done /\ LastNode.kind = "InsertNode"
    /\ LastKey \in DOMAIN last.before
    /\ Len(LastNode.values) # Len(last.before[LastKey].schema)

\* the message says 'Expected n values'
SaysExpected(msg, n) ==
    \E i \in 1..Len(msg) - 2 :
       /\ msg[i] = Lit("Expected ")
       /\ msg[i + 1] = Num(n)
       /\ msg[i + 2] = Lit(" values")

\* C12: an INSERT of k values into a table of n columns, k # n, ends in a
\* ValidationError whose message contains 'Expected n values', and appends
\* nothing to the table.
InsertWrongArityFails ==
    WrongArityInsert
    => /\ last.exec # <<>>
       /\ ~LastExec.ok
       /\ LastExec.cause = "ValidationError"
       /\ SaysExpected(LastExec.msg, Len(last.before[LastKey].schema))
       /\ tables = last.before

\* x is y or y with more at its end
IsPrefix(x, y) == Len(x) <= Len(y) /\ SubSeq(y, 1, Len(x)) = x

\* every table other than the one registered as key is as it was
OthersKept(before, after, key) ==
    /\ DOMAIN after \ {key} = DOMAIN before \ {key}
    /\ \A k \in DOMAIN before \ {key} : after[k] = before[k]

\* C29: a statement changes at most the table it names.  An INSERT that
\* succeeds appends one row to that table (the stored rows and row_count
\* both grow by one, the rows before stay in place) and changes neither its
\* schema nor any other table; a CREATE TABLE that succeeds adds one empty
\* table and changes no table that existed; a SELECT changes nothing in
\* storage, whether it succeeds or fails
StatementChangesItsTable ==
    last.done =>
      /\ LastNode.kind = "InsertNode" /\ last.out.ok
           => /\ LastKey \in DOMAIN last.before
              /\ Len(tables[LastKey].rows) = Len(last.before[LastKey].rows) + 1
              /\ tables[LastKey].row_count = last.before[LastKey].row_count + 1
              /\ tables[LastKey].row_count = Len(tables[LastKey].rows)
              /\ IsPrefix(last.before[LastKey].rows, tables[LastKey].rows)
              /\ tables[LastKey].schema = last.before[LastKey].schema
              /\ tables[LastKey].name = last.before[LastKey].name
              /\ OthersKept(last.before, tables, LastKey)
      /\ LastNode.kind = "CreateTableNode" /\ last.out.ok
           => /\ LastKey \notin DOMAIN last.before
              /\ DOMAIN tables = DOMAIN last.before \cup {LastKey}
              /\ tables[LastKey].rows = <<>>
              /\ tables[LastKey].row_count = 0
              /\ OthersKept(last.before, tables, LastKey)
      /\ LastNode.kind = "SelectNode" => tables = last.before
      /\ LastNode.kind # "None" => OthersKept(last.before, tables, LastKey)

\* an INSERT has just added a second row to a table while another table
\* is registered
StatementChangesItsTableWitness ==
    /\ last.done
    /\ LastNode.kind = "InsertNode"
    /\ last.out.ok
    /\ Len(tables[LastKey].rows) = 2
    /\ Cardinality(DOMAIN tables) = 2

----------------------------------------------------------------------------
(* Properties of the calls (specification SpecCalls) *)

\* C6: FilterOperation.execute returns, in the order of its input, exactly
\* the input rows whose value in the WHERE column satisfies the predicate
\* (it returns whenever the input is empty or the table and the column
\* exist), and executed again on the rows it returned it returns the same
\* rows.
FilterKeepsMatchingInOrder ==
    call.fn = "filter" =>
      LET key == Lower(call.table_name)
          Keep(r) == Satisfies(tables[key].schema, <<call.where>>, r)
      IN  /\ call.input_rows = <<>> => call.out = Ok(<<>>)
          /\ (/\ call.input_rows # <<>>
              /\ key \in DOMAIN tables
              /\ get_column_index(tables[key].schema, call.where.column).ok)
             => call.out.ok
          /\ (call.out.ok /\ call.input_rows # <<>>)
             => call.out.val = SelectSeq(call.input_rows, Keep)
          /\ call.again # <<>> => call.again[1] = call.out

\* a filter over two different rows has dropped the first and kept the
\* second, and has been executed again on that result
FilterKeepsMatchingInOrderWitness ==
    /\ call.fn = "filter"
    /\ call.again # <<>>
    /\ Len(call.input_rows) = 2
    /\ call.input_rows[1] # call.input_rows[2]
    /\ call.out.val = <<call.input_rows[2]>>

\* C8: when the row value or the literal is Null, '=' is true iff both are
\* Null, '!=' and '<>' are true iff exactly one is Null, and '>', '<', '>='
\* and '<=' are false whatever the other operand is.
NullComparisons ==
    (call.fn = "evaluate" /\ (call.row_value.t = "null" \/ call.where.value.t = "null"))
    => /\ call.out.ok
       /\ call.out.val =
            IF call.where.operator = "="
            THEN call.row_value.t = "null" /\ call.where.value.t = "null"
            ELSE IF call.where.operator \in {"!=", "<>"}
                 THEN (call.row_value.t = "null") # (call.where.value.t = "null")
            ELSE FALSE

\* Null = Null has just been evaluated to true
NullComparisonsWitness ==
    /\ call.fn = "evaluate"
    /\ call.row_value.t = "null" /\ call.where.value.t = "null"
    /\ call.where.operator = "="
    /\ call.out = Ok(TRUE)

\* both operands are not Null and their kinds differ
MixedKinds ==
    /\ call.fn = "evaluate"
    /\ call.row_value.t # "null" /\ call.where.value.t # "null"
    /\ call.row_value.t # call.where.value.t

\* the number a Boolean, Integer or Float stands for, in halves
Number(v) == IF v.t = "float" THEN v.n ELSE 2 * v.n

\* x operator y on numbers
NumberCompare(operator, x, y) ==
    IF operator = "=" THEN x = y
    ELSE IF operator \in {"!=", "<>"} THEN x # y
    ELSE IF operator = ">" THEN x > y
    ELSE IF operator = "<" THEN x < y
    ELSE IF operator = ">=" THEN x >= y
    ELSE x <= y

\* C9 (as stated): for every operator and every pair of non-Null operands
\* of different kinds, WhereClause.evaluate returns false and never raises.
MixedKindsNeverMatch ==
    MixedKinds => call.out = Ok(FALSE)

\* C9 (amended): for every operator and every pair of non-Null operands of
\* different kinds, WhereClause.evaluate never raises; when exactly one
\* operand is Text, '=', '>', '<', '>=' and '<=' return false and '!=' and
\* '<>' return true; when both operands are among Boolean, Integer and
\* Float, the result is the comparison of their numeric values (True as 1,
\* False as 0).
MixedKindsCompare ==
    MixedKinds
    => /\ call.out.ok
       /\ call.out.val =
            IF call.row_value.t = "str" \/ call.where.value.t = "str"
            THEN call.where.operator \in {"!=", "<>"}
            ELSE NumberCompare(call.where.operator,
                               Number(call.row_value), Number(call.where.value))

\* a Text row value has just been compared with '>' against an Integer
\* literal, and the result is false
MixedKindsCompareWitness ==
    /\ MixedKinds
    /\ call.row_value.t = "str" /\ call.where.value.t = "int"
    /\ call.where.operator = ">"
    /\ call.out = Ok(FALSE)

\* C10: process of a Select node yields a plan whose operations are, in
\* this order, one ScanOperation on the table, one FilterOperation carrying
\* the WHERE clause iff the node has one, and one ProjectOperation carrying
\* the column list, and nothing else; an Insert node, and a CreateTable node
\* whose column names are distinct, yield a plan of exactly one operation,
\* of their kind (a CreateTable node with a repeated column name yields no
\* plan).
PlanOfNode ==
    call.fn = "process" =>
      LET node == call.node
          plan == call.out.val
      IN  /\ node.kind = "SelectNode" =>
                /\ call.out.ok
                /\ Len(plan) = IF node.where_clause # <<>> THEN 3 ELSE 2
                /\ plan[1] = ScanOperation(node.table_name)
                /\ plan[Len(plan)] = ProjectOperation(node.columns)
                /\ node.where_clause # <<>> =>
                      plan[2] = FilterOperation(node.where_clause[1])
          /\ node.kind = "InsertNode" =>
                /\ call.out.ok
                /\ plan = <<InsertOperation(node.table_name, node.values)>>
          /\ node.kind = "CreateTableNode" =>
                IF \A i, j \in 1..Len(node.coldefs) :
                      Lower(node.coldefs[i].name) = Lower(node.coldefs[j].name) => i = j
                THEN /\ call.out.ok
                     /\ plan = <<CreateTableOperation(node.table_name, node.coldefs)>>
                ELSE ~call.out.ok

\* a Select node with a WHERE clause has just been processed into a plan
\* of three operations
PlanOfNodeWitness ==
    /\ call.fn = "process"
    /\ call.node.kind = "SelectNode"
    /\ call.node.where_clause # <<>>
    /\ call.out.ok
    /\ Len(call.out.val) = 3

\* C18: inserting a value that is not Null into a VARCHAR(m) column succeeds
\* if and only if the text form of the value has at most m characters
\* (exactly m is accepted), and then stores that text; a longer value fails
\* with ValidationError and the table is as it was.
VarcharLengthLimit ==
    (/\ call.fn = "insert"
     /\ call.column.data_type = "VARCHAR"
     /\ ~IsNone(call.values[2]))
    => IF Len(ToStr(call.values[2])) <= call.column.max_length
       THEN /\ call.out.ok
            /\ Len(call.after.rows) = Len(call.table.rows) + 1
            /\ call.after.rows[Len(call.after.rows)][2] = PyStr(ToStr(call.values[2]))
       ELSE /\ ~call.out.ok
            /\ call.out.err = "ValidationError"
            /\ call.after = call.table

\* 'ab', of two characters, has just been stored in a VARCHAR(2) column of
\* a table that held a row
VarcharLengthLimitWitness ==
    /\ call.fn = "insert"
    /\ call.column.data_type = "VARCHAR" /\ call.column.max_length = 2
    /\ call.values[2] = PyStr(TextAb)
    /\ Len(call.table.rows) = 1
    /\ call.out.ok
    /\ call.after.rows[2][2] = PyStr(TextAb)

\* C19: inserting Null into a column that is not nullable fails with a
\* ValidationError whose message names the column, and the table is as it
\* was; inserting Null into a nullable column, of any type, stores Null.
NullOnlyIfNullable ==
    (call.fn = "insert" /\ IsNone(call.values[2]))
    => IF call.column.nullable
       THEN /\ call.out.ok
            /\ Len(call.after.rows) = Len(call.table.rows) + 1
            /\ call.after.rows[Len(call.after.rows)] = <<call.values[1], None>>
       ELSE /\ ~call.out.ok
            /\ call.out.err = "ValidationError"
            /\ MessageNames(call.out.msg, call.column.name)
            /\ call.after = call.table

\* Null has just been refused by a BOOLEAN NOT NULL column of a table that
\* holds a row
NullOnlyIfNullableWitness ==
    /\ call.fn = "insert"
    /\ call.column.data_type = "BOOLEAN" /\ ~call.column.nullable
    /\ IsNone(call.values[2])
    /\ Len(call.table.rows) = 1
    /\ ~call.out.ok
    /\ call.after = call.table

\* C20: every column that has been made, by Column(...), by the parser or by
\* Schema.from_dict, has a max_length if and only if it is a VARCHAR column:
\* a VARCHAR column has a positive max_length, a column of another type none.
MaxLengthIffVarchar ==
    (call.fn = "column" /\ call.out.ok)
    => \A i \in 1..Len(call.out.val) :
         Let(call.out.val[i], LAMBDA col :
             /\ (col.max_length # NoLength) <=> (col.data_type = "VARCHAR")
             /\ col.data_type = "VARCHAR" => col.max_length > 0)

\* C21: for every valid schema s, Schema.from_dict(s.to_dict()) succeeds and
\* equals s: the same columns in the same order, each with the same name,
\* type, nullability and max_length.
SchemaRoundTripEqual ==
    call.fn = "round_trip"
    => /\ call.out.ok
       /\ Len(call.out.val) = Len(call.schema)
       /\ \A i \in 1..Len(call.schema) :
            /\ call.out.val[i].name = call.schema[i].name
            /\ call.out.val[i].data_type = call.schema[i].data_type
            /\ call.out.val[i].nullable = call.schema[i].nullable
            /\ call.out.val[i].max_length = call.schema[i].max_length

\* the schema (B VARCHAR NOT NULL, a FLOAT), whose VARCHAR column got the
\* default length, has just been rebuilt from its dictionary
SchemaRoundTripEqualWitness ==
    /\ call.fn = "round_trip"
    /\ Len(call.schema) = 2
    /\ call.schema[1] = [name |-> ColBUpper, data_type |-> "VARCHAR",
                          nullable |-> FALSE, max_length |-> DefaultVarcharLength]
    /\ call.schema[2].name = ColA /\ call.schema[2].data_type = "FLOAT"
    /\ call.data[1].max_length = DefaultVarcharLength
    /\ call.out.ok

\* C23: whenever QueryProcessor.process fails on a node that is not None (a
\* CreateTable node with a column name twice, a node whose table name,
\* columns or values were emptied), what it raises is ProcessingError; and
\* it does fail on a node with an emptied attribute.
ProcessRaisesProcessingError ==
    (call.fn \in {"process", "process_emptied"} /\ call.node.kind # "None")
    => /\ ~call.out.ok => call.out.err = "ProcessingError"
       /\ call.fn = "process_emptied" => ~call.out.ok

----------------------------------------------------------------------------
(* Properties of the storage manager and of the plans (specification      *)
(* SpecStorage)                                                            *)

\* some part of the message is the words lit
MessageSays(msg, lit) == \E i \in 1..Len(msg) : msg[i] = Lit(lit)

CaseVariants(name) == {name, Lower(name), Upper(name)}

\* the plan with every table name spelled as Spell spells it
Respelled(plan, Spell(_)) ==
    [i \in 1..Len(plan) |-> [plan[i] EXCEPT !.table_name = Spell(@)]]

\* what a caller sees of the outcome of a plan, but for the spelling of the
\* table name in its message
Seen(ran) ==
    [ok |-> ran.out.ok, err |-> ran.out.err, cause |-> ran.out.cause,
     columns |-> IF ran.out.ok THEN ran.out.val.columns ELSE <<>>,
     rows |-> IF ran.out.ok THEN ran.out.val.rows ELSE <<>>,
     text |-> IF ran.out.ok THEN ran.out.val.message.text ELSE "",
     tables |-> ran.tables]

\* every table the plan names is registered
PlanTablesRegistered(plan, tbls) ==
    \A i \in 1..Len(plan) :
       plan[i].table_name # <<>> => Lower(plan[i].table_name) \in DOMAIN tbls

\* C14: table names are case-insensitive.  The registry is keyed by the
\* lower-cased name, so it never holds two tables whose names are equal
\* ignoring case; and against a registry that holds the table, table_exists,
\* get_table, insert_values, scan_table, clear_table, drop_table and a plan
\* (INSERT, SELECT) end the same way, and leave the same registry, under
\* every spelling of the name that differs in letter case only.
TableNamesIgnoreCase ==
    /\ \A k \in DOMAIN tables : k = Lower(k) /\ Lower(tables[k].name) = k
    /\ (call.fn \in {"table_exists", "get_table", "insert_values", "scan_table",
                     "clear_table", "drop_table"}
        /\ Lower(call.name) \in DOMAIN call.before)
       => \A v \in CaseVariants(call.name) :
            /\ call.fn = "table_exists" =>
                  call.out = Ok(TRUE) /\ table_exists(call.before, v)
            /\ call.fn = "get_table" =>
                  /\ call.out = Ok(call.before[Lower(call.name)])
                  /\ call.out = get_table(call.before, v)
            /\ call.fn = "scan_table" =>
                  /\ call.out = Ok(call.before[Lower(call.name)].rows)
                  /\ call.out = scan_table(call.before, v)
            /\ call.fn = "insert_values" =>
                  [out |-> call.out, tables |-> tables]
                    = insert_values(call.before, v, call.arg)
            /\ call.fn = "clear_table" =>
                  [out |-> call.out, tables |-> tables] = clear_table(call.before, v)
            /\ call.fn = "drop_table" =>
                  /\ call.out.ok
                  /\ Lower(call.name) \notin DOMAIN tables
                  /\ [out |-> call.out, tables |-> tables] = drop_table(call.before, v)
    /\ (call.fn = "execute" /\ PlanTablesRegistered(call.plan, call.before))
       => /\ Seen([out |-> call.out, tables |-> tables])
               = Seen(execute(Respelled(call.plan, Lower), call.before))
          /\ Seen([out |-> call.out, tables |-> tables])
               = Seen(execute(Respelled(call.plan, Upper), call.before))

\* the table created as t, holding a row, has just been dropped as T
TableNamesIgnoreCaseWitness ==
    /\ call.fn = "drop_table"
    /\ call.name = NameTUpper
    /\ NameT \in DOMAIN call.before
    /\ call.before[NameT].name = NameT
    /\ Len(call.before[NameT].rows) = 1
    /\ call.out.ok
    /\ NameT \notin DOMAIN tables

\* C15: every TableNotFoundError raised for a name that is not registered
\* (by get_table, scan_table, insert_values, clear_table, drop_table, or by
\* the scan or the insert of a plan) names the missing table, and lists the
\* registered names or says that no tables exist.  (A call that fails
\* leaves the registry as it was when the error was raised.)
NotFoundListsTables ==
    (/\ call.fn \in {"get_table", "scan_table", "insert_values", "clear_table",
                     "drop_table", "execute"}
     /\ ~call.out.ok
     /\ call.out.cause = "TableNotFoundError")
    => /\ IF call.fn = "execute"
          THEN \E i \in 1..Len(call.plan) :
                  MessageNames(call.out.msg, call.plan[i].table_name)
          ELSE MessageNames(call.out.msg, call.name)
       /\ IF DOMAIN tables # {}
          THEN \E i \in 1..Len(call.out.msg) :
                  call.out.msg[i] = Joined(DOMAIN tables)
          ELSE MessageSays(call.out.msg, ". No tables have been created yet")

\* the plan of a SELECT: a scan, a filter or none, and a projection
SelectPlan(plan) ==
    /\ Len(plan) \in {2, 3}
    /\ plan[1].kind = "ScanOperation"
    /\ plan[Len(plan)].kind = "ProjectOperation"
    /\ Len(plan) = 3 => plan[2].kind = "FilterOperation"

\* the WHERE clause of the plan of a SELECT, as a Select node holds it
PlanWhere(plan) == IF Len(plan) = 3 THEN <<plan[2].where_clause>> ELSE <<>>

\* the plan of a SELECT names a registered table and columns of its schema
\* only, and no row of the table satisfies its WHERE clause
SelectsNoRow(plan, tbls) ==
    /\ SelectPlan(plan)
    /\ plan[Len(plan)].columns # <<>>
    /\ Lower(plan[1].table_name) \in DOMAIN tbls
    /\ Let(tbls[Lower(plan[1].table_name)], LAMBDA table :
           /\ MissingColumns([columns |-> plan[Len(plan)].columns,
                              where_clause |-> PlanWhere(plan)], table.schema) = {}
           /\ Matching(table, PlanWhere(plan)) = <<>>)

\* what C16 says of the result of a plan
DataOrMessage(plan, tbls, out) ==
    /\ out.ok => (is_data_result(out.val) # is_message_result(out.val))
    /\ SelectsNoRow(plan, tbls) =>
          /\ out.ok
          /\ is_data_result(out.val)
          /\ out.val.rows = <<>>
          /\ out.val.columns
               = IF plan[Len(plan)].columns = Star
                 THEN get_column_names(tbls[Lower(plan[1].table_name)].schema)
                 ELSE plan[Len(plan)].columns

\* C16 as stated: every result that execute returns, whatever the plan, is
\* a data result or a message result and not both; the SELECT of no row
\* returns a data result with the column names and no rows.
ResultIsDataOrMessageAnyPlan ==
    call.fn = "execute" => DataOrMessage(call.plan, call.before, call.out)

\* every ProjectOperation of the plan lists a column, as every plan that
\* QueryProcessor.process builds does (a Select node has a column)
ProjectsAColumn(plan) ==
    \A i \in 1..Len(plan) :
       plan[i].kind = "ProjectOperation" => plan[i].columns # <<>>

\* C16: every result that execute returns for a plan whose projections
\* list at least one column is a data result or a message result and not
\* both; the SELECT of no row (an empty table, or a filter that no row
\* satisfies) returns a data result with the column names and no rows.
ResultIsDataOrMessage ==
    (call.fn = "execute" /\ ProjectsAColumn(call.plan))
    => DataOrMessage(call.plan, call.before, call.out)

\* SELECT b, a FROM T WHERE a > 5 has just run against the table t that
\* holds a row, and returned the two column names and no row
ResultIsDataOrMessageWitness ==
    /\ call.fn = "execute"
    /\ Len(call.plan) = 3
    /\ SelectsNoRow(call.plan, call.before)
    /\ call.plan[3].columns = <<ColB, ColA>>
    /\ Len(call.before[NameT].rows) = 1
    /\ call.out.ok
    /\ call.out.val.columns = <<ColB, ColA>>
    /\ call.out.val.rows = <<>>

\* the plan contains a ScanOperation
HasScan(plan) == \E i \in 1..Len(plan) : plan[i].kind = "ScanOperation"

\* C17: a plan that execute runs to its end returns a data result if and
\* only if it contains a ScanOperation, whatever its length (the plans
\* whose projections list a column).
ScanMeansSelect ==
    (call.fn = "execute" /\ ProjectsAColumn(call.plan) /\ call.out.ok)
    => (is_data_result(call.out.val) <=> HasScan(call.plan))

\* what one operation of a plan without scan does to the storage, by the
\* method of the storage manager it stands for: [ok, tables]
StorageEffect(op, tbls) ==
    IF op.kind = "CreateTableOperation"
    THEN Let(create_table(tbls, op.table_name, op.schema), LAMBDA ran :
             [ok |-> ran.out.ok, tables |-> ran.tables])
    ELSE IF op.kind = "InsertOperation"
    THEN Let(insert_values(tbls, op.table_name, op.values), LAMBDA ran :
             [ok |-> ran.out.ok, tables |-> ran.tables])
    ELSE [ok |-> FALSE, tables |-> tbls]

\* the operations of a plan applied in plan order up to the first that
\* fails: [ok, tables]
RECURSIVE InPlanOrder(_, _)
InPlanOrder(plan, tbls) ==
    IF plan = <<>> THEN [ok |-> TRUE, tables |-> tbls]
    ELSE Let(StorageEffect(Head(plan), tbls), LAMBDA ran :
             IF ~ran.ok THEN ran ELSE InPlanOrder(Tail(plan), ran.tables))

\* the result is the message of operation op about its table
MessageOf(result, op) ==
    /\ is_message_result(result)
    /\ ~is_data_result(result)
    /\ result.message.text = (IF op.kind = "CreateTableOperation"
                              THEN "created successfully" ELSE "1 row inserted")
    /\ Lower(result.message.name) = Lower(op.table_name)

\* C27: for a plan without a ScanOperation, execute applies the operations
\* to the storage one after another in plan order (up to the first that
\* fails, whose error it raises) and returns the result of the last one;
\* for an empty plan it returns a message result and leaves the storage as
\* it was
PlanRunsInOrder ==
    (call.fn = "execute" /\ ~HasScan(call.plan))
    => /\ tables = InPlanOrder(call.plan, call.before).tables
       /\ call.out.ok = InPlanOrder(call.plan, call.before).ok
       /\ call.out.ok /\ call.plan # <<>>
            => MessageOf(call.out.val, call.plan[Len(call.plan)])
       /\ call.plan = <<>>
            => /\ call.out.ok
               /\ is_message_result(call.out.val)
               /\ tables = call.before

\* the plan <<create u, insert into T>> has just run against a storage
\* holding t and not u: both took effect, and the result is that of the
\* INSERT
PlanRunsInOrderWitness ==
    /\ call.fn = "execute"
    /\ Len(call.plan) = 2
    /\ call.plan[1].kind = "CreateTableOperation"
    /\ call.plan[2].kind = "InsertOperation"
    /\ call.out.ok
    /\ NameU \notin DOMAIN call.before
    /\ NameU \in DOMAIN tables
    /\ Len(tables[NameT].rows) = Len(call.before[NameT].rows) + 1
    /\ call.out.val.message.text = "1 row inserted"

\* C28: clear_table leaves the named table registered with the same
\* schema, no rows and row_count 0; drop_table unregisters it, and lookups
\* of the name then fail with TableNotFoundError; both leave every other
\* table as it was, and fail without effect for a name not registered;
\* and no call of the storage manager or the engine removes some rows of a
\* table and keeps others: a table that stays registered keeps the rows it
\* had, in order, or has none
ClearAndDropWholeTable ==
    /\ call.fn = "clear_table" /\ call.out.ok
         => /\ Lower(call.name) \in DOMAIN call.before
            /\ Lower(call.name) \in DOMAIN tables
            /\ tables[Lower(call.name)].schema = call.before[Lower(call.name)].schema
            /\ tables[Lower(call.name)].name = call.before[Lower(call.name)].name
            /\ tables[Lower(call.name)].rows = <<>>
            /\ tables[Lower(call.name)].row_count = 0
            /\ OthersKept(call.before, tables, Lower(call.name))
    /\ call.fn = "drop_table" /\ call.out.ok
         => /\ Lower(call.name) \in DOMAIN call.before
            /\ Lower(call.name) \notin DOMAIN tables
            /\ \A name \in CaseVariants(call.name) :
                 /\ ~get_table(tables, name).ok
                 /\ get_table(tables, name).err = "TableNotFoundError"
                 /\ ~scan_table(tables, name).ok
                 /\ ~table_exists(tables, name)
            /\ OthersKept(call.before, tables, Lower(call.name))
    /\ call.fn \in {"clear_table", "drop_table"} /\ ~call.out.ok
         => /\ Lower(call.name) \notin DOMAIN call.before
            /\ call.out.err = "TableNotFoundError"
            /\ tables = call.before
    /\ call # NoCall
         => \A k \in DOMAIN call.before \cap DOMAIN tables :
              \/ tables[k].rows = <<>>
              \/ IsPrefix(call.before[k].rows, tables[k].rows)

\* clear_table has just emptied a table that held a row, while another
\* table holding a row is registered
ClearAndDropWholeTableWitness ==
    /\ call.fn = "clear_table"
    /\ call.out.ok
    /\ call.before[Lower(call.name)].rows # <<>>
    /\ tables[Lower(call.name)].rows = <<>>
    /\ \E k \in DOMAIN tables \ {Lower(call.name)} : tables[k].rows # <<>>

----------------------------------------------------------------------------
(* Properties of the Row objects (specification SpecRows) *)

\* C22: the rows stored in a table are never changed after their insertion,
\* whatever the caller does to the Row objects it holds (the Row it passed
\* to insert, the Rows it got from scan, from SELECT * or from a SELECT of
\* named columns): every table holds the rows as the INSERTs stored them.
StoredRowsNeverChange ==
    \A k \in DOMAIN tables : tables[k].rows = inserted[k]

----------------------------------------------------------------------------
(* Properties of the parser (specification SpecParser) *)

\* C24: a statement of any of the three kinds that parses without a
\* trailing ';' parses with ';' appended as well, and to the same AST
SemicolonSameAst ==
    call.fn = "parse" /\ call.out.ok => call.semicolon = call.out

\* C25: an INSERT with a single-quoted literal (doubled quotes unescaped)
\* into a VARCHAR column long enough succeeds, and the scan then returns
\* the row with the literal's exact content, whatever the content spells
QuotedLiteralStoredAsWritten ==
    call.fn = "insert_literal" =>
      /\ call.out.ok
      /\ Let(scan_table(tables, NameU), LAMBDA scanned :
             /\ scanned.ok
             /\ scanned.val # <<>>
             /\ scanned.val[Len(scanned.val)] = <<PyStr(call.content)>>)

----------------------------------------------------------------------------
(* Properties of the shell (specification SpecShell) *)

\* C26: for a command the engine rejects, process_command raises nothing
\* and returns a string starting with one of the labels Parse Error:,
\* Validation Error:, Table Error:, Column Error:, Storage Error: (that of
\* the class raised, where it is one of these five), running stays as it
\* was, and the loop goes on to the next command
RejectedCommandIsLabelled ==
    call.fn = "shell" /\ call.processed /\ ~call.engine.ok
    => /\ call.out.ok
       /\ \E i \in 1..5 :
            /\ call.out.val[1] = Lit(ShellHandlers[i].label)
            /\ (\E j \in 1..5 : ShellHandlers[j].class = call.engine.err)
                 => ShellHandlers[i].class = call.engine.err
       /\ call.running

----------------------------------------------------------------------------
(* Properties of the CSV files (specification SpecCsv) *)

\* C30: a table saved with save_table_to_csv and loaded with
\* load_table_from_csv into a fresh StorageManager has the same schema and
\* the same rows in the same order, whatever rows the schema allowed, Null
\* included
CsvRoundTrip ==
    call.fn = "save_load" /\ call.saved.ok
    => /\ call.loaded.out.ok
       /\ Lower(call.name) \in DOMAIN call.loaded.tables
       /\ call.loaded.tables[Lower(call.name)].schema = tables[Lower(call.name)].schema
       /\ call.loaded.tables[Lower(call.name)].rows = tables[Lower(call.name)].rows

====
